---- MODULE Spec2Model ----
(***************************************************************************)
(* A model of the semantic memory and knowledge engine of                  *)
(* ollama-docker-mcp: the circuit breaker and the retry loop around the    *)
(* embedding service, batch embedding, the embedding cache, the            *)
(* deduplicating store_memory, the memory tools over the conversations    *)
(* and memories tables, the batch insert over the connection pool, the    *)
(* ranking, the use of retrieved memories, the knowledge sources, the      *)
(* chunking and the tool-call handler of the MCP server.  Each component   *)
(* has its own specification (SpecBreaker, SpecRetry, SpecBatch,           *)
(* SpecCache, SpecStore, SpecTools, SpecPool, SpecRank, SpecUse,           *)
(* SpecSource, SpecChunk, SpecHandler); the variables of the other         *)
(* components stay as Init leaves them.                                    *)
(***************************************************************************)
EXTENDS Integers, Sequences, FiniteSets, TLC

VARIABLES
    \* ---- CircuitBreaker (part_002:346-384)
    state,            \* 'closed' | 'open' | 'half-open'
    failures,         \* this.failures
    lastFailureTime,  \* this.lastFailureTime
    cbNow,            \* Date.now() as the breaker's callers see it
    cbPc,             \* per caller: "idle", "inflight" (awaiting fn), "returned"
    cbResult,         \* per caller: what execute() gave the caller
    cbAdmitted,       \* per caller: breaker state right after the state check
    consecFail,       \* history: fn failures completed since the last fn success
    \* ---- executeWithRetry (part_002:324-340)
    rMaxRetries,      \* the maxRetries argument
    rAttempt,         \* the loop variable attempt
    rPc,              \* "idle", "call" (awaiting fn), "wait" (backoff delay), "done"
    rErrors,          \* history: the errors fn has thrown, in order
    rOutcome,         \* what executeWithRetry gave its caller
    rDelay,           \* the delay computed last
    \* ---- batch_embeddings (index.ts:265-301)
    bePc,             \* "idle", "loop" (awaiting axios.post), "done"
    beModel,          \* args.model
    beTexts,          \* args.texts
    beEmbeddings,     \* the embeddings array
    beResponse,       \* the tool's response
    \* ---- Promise.all over the chunks (part_001:1000-1005)
    paPc,             \* "idle", "awaiting", "done", "rejected"
    paModel,
    paChunks,         \* smartChunk(content)
    paSettled,        \* per index: the resolved value, or <<>> while pending
    paOrder,          \* history: the indices in the order they resolved
    paEmbeddings,     \* the array Promise.all resolves to
    \* ---- getEmbedding and embeddingCache (part_002:41-72)
    embeddingCache,   \* the Map, as its entries in insertion order
    ecNow,            \* Date.now() as the cache's callers see it
    ecPc,             \* per client: "idle", "awaiting" (generateEmbedding), "returned"
    ecModel,          \* per client: the model argument
    ecText,           \* per client: the text argument
    ecResult,         \* per client: what getEmbedding returned, or "error"
    ecHit,            \* per client: whether the cached branch returned it
    ecCalls,          \* history: the getEmbedding calls made so far
    lastPut,          \* history: the last embeddingCache.set (set: there was one)
    ecUsed,           \* history: the cached keys, the one set or hit last at the end
    \* ---- store_memory with the deduplication check (PHASE_2:145-172, 560-576)
    conversations,    \* the conversations table: conversation_id -> its row
    memories,         \* the memories table, in memory_id order
    smPc,             \* per client: "idle", "insert" (past the check), "count"
                      \* (past the INSERT), "returned"
    smConv,           \* per client: conversation_id
    smContent,        \* per client: content
    smResult,         \* per client: the tool's output
    smDupAtStart,     \* history, per client: the memory_id that already held
                      \* this content in this conversation when the call began, or 0
    smFound,          \* history, per client: the memory_id the deduplication
                      \* search returned, or 0
    smSeenLen,        \* history, per client: the number of rows committed when
                      \* the deduplication search ran
    \* ---- search_memories, search_all_conversations, update_memory_metadata,
    \* ---- end_conversation (PHASE_2:187-316, CONVERSATION_TRACKING:210-233)
    resp,             \* the response of the last of these tool calls
    \* ---- batch insert over the connection pool (PHASE_2:486-500)
    pcInTxn,          \* per connection: a transaction is open (BEGIN ran on it)
    pcPending,        \* per connection: the rows its open transaction inserted
    pcHeld,           \* per connection: another operation has it checked out
    pcLast,           \* the connection that went back to the pool last
    table,            \* the committed rows
    ibPc,             \* "idle", "begin", "loop", "commit", "catch", "returned"
    ibMemories,       \* the memories argument: the rows to insert, in order
    ibFailAt,         \* the index whose INSERT fails, or 0
    ibIdx,            \* the loop's position in memories
    ibOutcome,        \* "none", "resolved" or "thrown"
    ibBefore,         \* history: the committed rows when the batch began
    \* ---- ranking (part_002:86-103, part_003:387-400, PHASE_2:578-590)
    rkPc,             \* "idle", "scored" or "decayed"
    rkIn,             \* the candidate rows, by id
    rkScore,          \* by id: computeRank of the row's factors
    rkRank,           \* by id: the ranking formula of the row's factors
    rkOut,            \* the ids in the order the relevance-decay query returns
    \* ---- knowledge sources (part_001:538-629, 940-1030, part_004:225-257)
    ksStatus,         \* knowledge_sources.status of the source
    ksContentHash,    \* knowledge_sources.content_hash
    ksPreviousHash,   \* knowledge_sources.previous_hash
    ksTotalChunks,    \* knowledge_sources.total_chunks
    ksChunks,         \* the number of committed embedding_chunks rows of the source
    ksRemote,         \* the content the source's location serves now
    ksPc,             \* "idle", "fetch", "compare", "reindex", "parse", "embed",
                      \* "insert", "record" or "returned"
    ksOp,             \* "none", "index" or "update"
    ksForce,          \* the force argument of update_knowledge_source
    ksFetched,        \* the content the operation fetched, or 0
    ksN,              \* the number of chunks the content was split into
    ksOutcome,        \* the operation's output status or its error type
    ksBefore,         \* history: the source's record when the operation began
    ksCreated,        \* history: the chunks the operation has committed
    ksOps,            \* the number of operations that have returned
    \* ---- chunking (part_001:746-773)
    chPc,             \* "idle", "chunked", "embedding" or "embedded"
    chContent,        \* the content: the token counts of its paragraphs
    chChunkSize,      \* chunk_size
    chOverlap,        \* overlap
    chChunks,         \* the chunks smartChunk returned
    chInflight,       \* the generateEmbedding calls started and not yet settled
    \* ---- the tool-call handler (index.ts:154-400)
    hPc,              \* "idle", "awaiting" (a request to Ollama) or "responded"
    hTool,            \* request.params.name
    hArgs,            \* the sampling parameters of request.params.arguments
    hTexts,           \* args.texts.length
    hSilent,          \* the service accepts requests and never answers
    hSent,            \* history: the requests the invocation has issued
    hPushed,          \* embeddings.length
    hOptions,         \* the options of the /api/generate request
    hResponse,        \* what the handler returned
    hRaised           \* history: an exception was raised in the branch

breakerVars == <<state, failures, lastFailureTime, cbNow, cbPc, cbResult,
                 cbAdmitted, consecFail>>
retryVars == <<rMaxRetries, rAttempt, rPc, rErrors, rOutcome, rDelay>>
batchVars == <<bePc, beModel, beTexts, beEmbeddings, beResponse,
               paPc, paModel, paChunks, paSettled, paOrder, paEmbeddings>>

cacheVars == <<embeddingCache, ecNow, ecPc, ecModel, ecText, ecResult, ecHit,
               ecCalls, lastPut, ecUsed>>

storeVars == <<conversations, memories, smPc, smConv, smContent, smResult,
               smDupAtStart, smFound, smSeenLen, resp>>

poolVars == <<pcInTxn, pcPending, pcHeld, pcLast, table, ibPc, ibMemories, ibFailAt,
              ibIdx, ibOutcome, ibBefore>>

rankVars == <<rkPc, rkIn, rkScore, rkRank, rkOut>>

sourceVars == <<ksStatus, ksContentHash, ksPreviousHash, ksTotalChunks, ksChunks,
                ksRemote, ksPc, ksOp, ksForce, ksFetched, ksN, ksOutcome, ksBefore,
                ksCreated, ksOps>>

chunkVars == <<chPc, chContent, chChunkSize, chOverlap, chChunks, chInflight>>

handlerVars == <<hPc, hTool, hArgs, hTexts, hSilent, hSent, hPushed, hOptions,
                 hResponse, hRaised>>

vars == <<breakerVars, retryVars, batchVars, cacheVars, storeVars, poolVars,
          rankVars, sourceVars, chunkVars, handlerVars>>

\* What each component's actions leave alone.
nonBreakerVars == <<retryVars, batchVars, cacheVars, storeVars, poolVars, rankVars,
    sourceVars, chunkVars,
    handlerVars>>
nonRetryVars == <<breakerVars, batchVars, cacheVars, storeVars, poolVars, rankVars,
    sourceVars, chunkVars,
    handlerVars>>
nonBatchVars == <<breakerVars, retryVars, cacheVars, storeVars, poolVars, rankVars,
    sourceVars, chunkVars,
    handlerVars>>
nonCacheVars == <<breakerVars, retryVars, batchVars, storeVars, poolVars, rankVars,
    sourceVars, chunkVars,
    handlerVars>>
nonStoreVars == <<breakerVars, retryVars, batchVars, cacheVars, poolVars, rankVars,
    sourceVars, chunkVars,
    handlerVars>>
nonPoolVars == <<breakerVars, retryVars, batchVars, cacheVars, storeVars, rankVars,
    sourceVars, chunkVars,
    handlerVars>>
nonRankVars == <<breakerVars, retryVars, batchVars, cacheVars, storeVars, poolVars,
    sourceVars, chunkVars,
    handlerVars>>
nonSourceVars == <<breakerVars, retryVars, batchVars, cacheVars, storeVars, poolVars,
    rankVars, chunkVars,
    handlerVars>>
nonChunkVars == <<breakerVars, retryVars, batchVars, cacheVars, storeVars, poolVars,
    rankVars, sourceVars,
    handlerVars>>
nonHandlerVars == <<breakerVars, retryVars, batchVars, cacheVars, storeVars, poolVars,
    rankVars, sourceVars, chunkVars>>

(***************************************************************************)
(* Circuit breaker                                                         *)
(***************************************************************************)

\* failureThreshold: number = 5
failureThreshold == 5
\* timeout: number = 60000 (ms)
timeout == 60000

\* Concurrent callers of execute() and clock ticks the model explores.
NumCallers == 2
MaxCbTicks == 4

Callers == 1..NumCallers

\* The clock advances in half-cooldown steps, so that "exactly the cooldown"
\* and "more than the cooldown" both occur.
CbTickMs == timeout \div 2

\* A cooldown test that lets the call through one tick early.
CooldownElapsed_AtTimeout(now, last) == now - last >= timeout

\* Date.now() - this.lastFailureTime > this.timeout
CooldownElapsed(now, last) == now - last > timeout

\* A threshold test that opens one failure late.
ThresholdReached_Late(f) == f > failureThreshold

\* onFailure's test: this.failures >= this.failureThreshold
ThresholdReached(f) == f >= failureThreshold

\* onSuccess(): this.failures = 0; this.state = 'closed'
onSuccess ==
    /\ failures' = 0
    /\ state' = "closed"
    /\ UNCHANGED lastFailureTime

\* onFailure(): this.failures++; this.lastFailureTime = Date.now();
\* if (this.failures >= this.failureThreshold) this.state = 'open'
onFailure ==
    /\ failures' = failures + 1
    /\ lastFailureTime' = cbNow
    /\ state' = IF ThresholdReached(failures + 1) THEN "open" ELSE state

InitBreaker ==
    /\ state = "closed"
    /\ failures = 0
    /\ lastFailureTime = 0
    /\ cbNow = 0
    /\ cbPc = [c \in Callers |-> "idle"]
    /\ cbResult = [c \in Callers |-> "none"]
    /\ cbAdmitted = [c \in Callers |-> "none"]
    /\ consecFail = 0

\* Time passes.
CbTick ==
    /\ cbNow < MaxCbTicks * CbTickMs
    /\ cbNow' = cbNow + CbTickMs
    /\ UNCHANGED <<state, failures, lastFailureTime, cbPc, cbResult,
                   cbAdmitted, consecFail>>
    /\ UNCHANGED nonBreakerVars

\* execute(fn) up to its await: the state check, then fn() is started.
Execute(c) ==
    /\ cbPc[c] = "idle"
    /\ IF state = "open" /\ ~CooldownElapsed(cbNow, lastFailureTime)
       THEN \* throw new Error('Circuit breaker is open')
            /\ cbPc' = [cbPc EXCEPT ![c] = "returned"]
            /\ cbResult' = [cbResult EXCEPT ![c] = "Circuit breaker is open"]
            /\ UNCHANGED <<state, cbAdmitted>>
       ELSE /\ state' = IF state = "open" THEN "half-open" ELSE state
            /\ cbPc' = [cbPc EXCEPT ![c] = "inflight"]
            /\ cbAdmitted' = [cbAdmitted EXCEPT ![c] =
                                IF state = "open" THEN "half-open" ELSE state]
            /\ UNCHANGED cbResult
    /\ UNCHANGED <<failures, lastFailureTime, cbNow, consecFail>>
    /\ UNCHANGED nonBreakerVars

\* fn() resolves: onSuccess(), return result.
FnResolves(c) ==
    /\ cbPc[c] = "inflight"
    /\ onSuccess
    /\ cbPc' = [cbPc EXCEPT ![c] = "returned"]
    /\ cbResult' = [cbResult EXCEPT ![c] = "ok"]
    /\ consecFail' = 0
    /\ UNCHANGED <<cbNow, cbAdmitted>>
    /\ UNCHANGED nonBreakerVars

\* fn() rejects: onFailure(), rethrow.
FnRejects(c) ==
    /\ cbPc[c] = "inflight"
    /\ onFailure
    /\ cbPc' = [cbPc EXCEPT ![c] = "returned"]
    /\ cbResult' = [cbResult EXCEPT ![c] = "fn error"]
    /\ consecFail' = consecFail + 1
    /\ UNCHANGED <<cbNow, cbAdmitted>>
    /\ UNCHANGED nonBreakerVars

\* The caller takes the result or the error; it may call again.
CbReturn(c) ==
    /\ cbPc[c] = "returned"
    /\ cbPc' = [cbPc EXCEPT ![c] = "idle"]
    /\ cbResult' = [cbResult EXCEPT ![c] = "none"]
    /\ cbAdmitted' = [cbAdmitted EXCEPT ![c] = "none"]
    /\ UNCHANGED <<state, failures, lastFailureTime, cbNow, consecFail>>
    /\ UNCHANGED nonBreakerVars

NextBreaker ==
    \/ CbTick
    \/ \E c \in Callers : Execute(c)
    \/ \E c \in Callers : FnResolves(c)
    \/ \E c \in Callers : FnRejects(c)
    \/ \E c \in Callers : CbReturn(c)


\* ---- Claims about the circuit breaker

\* C1: while the breaker is open and the cooldown has not elapsed (now minus
\* the last failure time is at most 60000 ms), a caller that enters execute()
\* gets the 'Circuit breaker is open' error in that same step and fn is not
\* started for it.
C1_OpenFailsFast ==
    [][\A c \in Callers :
         (/\ state = "open"
          /\ cbNow - lastFailureTime <= 60000
          /\ cbPc[c] = "idle"
          /\ cbPc'[c] # "idle")
         => (/\ cbPc'[c] = "returned"
             /\ cbResult'[c] = "Circuit breaker is open"
             /\ state' = "open")]_vars

\* C1's case: a caller was turned away at exactly the cooldown while the
\* breaker is open.
C1_Witness ==
    \E c \in Callers :
        /\ state = "open"
        /\ cbPc[c] = "returned"
        /\ cbResult[c] = "Circuit breaker is open"
        /\ cbNow - lastFailureTime = 60000

\* C2: the breaker is closed exactly while fewer than 5 failures of the
\* embedding service have completed in a row: closed after the 4th, open
\* (or probing) from the 5th on, and a success in between starts the count
\* again.
C2_OpensAtFifthConsecutiveFailure ==
    (state = "closed") <=> (consecFail < 5)

\* C2's case: the 5th failure in a row has just opened the breaker.
C2_Witness ==
    /\ state = "open"
    /\ consecFail = 5
    /\ \E c \in Callers : cbPc[c] = "returned" /\ cbResult[c] = "fn error"

\* C3: while the breaker is half-open at most one call admitted as a probe is
\* in flight to the embedding service.
C3_SingleProbe ==
    state = "half-open" =>
        Cardinality({c \in Callers :
                        cbPc[c] = "inflight" /\ cbAdmitted[c] = "half-open"}) <= 1

\* C4: a call admitted as the half-open probe closes the breaker when it
\* succeeds and reopens it when it fails.
C4_ProbeDecides ==
    [][\A c \in Callers :
         (/\ cbPc[c] = "inflight"
          /\ cbAdmitted[c] = "half-open"
          /\ cbPc'[c] = "returned")
         => (/\ cbResult'[c] = "ok" => state' = "closed"
             /\ cbResult'[c] = "fn error" => state' = "open")]_vars

\* C38: the open state is left only into half-open, and a call that was let
\* through while the breaker was closed and succeeds after the breaker has
\* opened leaves the breaker open and its failure count as it was.
C38_OpenLeftOnlyByProbe ==
    [][/\ (state = "open" /\ state' # "open") => state' = "half-open"
       /\ \A c \in Callers :
             (/\ state = "open"
              /\ cbPc[c] = "inflight"
              /\ cbAdmitted[c] = "closed"
              /\ cbPc'[c] = "returned"
              /\ cbResult'[c] = "ok")
             => (state' = "open" /\ failures' = failures)]_vars

(***************************************************************************)
(* executeWithRetry                                                        *)
(***************************************************************************)

\* maxRetries: number = 3
DefaultMaxRetries == 3
\* backoff: number = 1000 (ms)
DefaultBackoff == 1000

\* The maxRetries values a caller passes.
RetryCounts == 0..DefaultMaxRetries

\* The errors fn can throw: two transient kinds, two that are not.
TransientErrors == {"timeout", "connection refused"}
PermanentErrors == {"unknown model", "validation error"}
ErrorKinds == TransientErrors \cup PermanentErrors

RECURSIVE Pow2(_)
\* Math.pow(2, attempt)
Pow2(n) == IF n = 0 THEN 1 ELSE 2 * Pow2(n - 1)

\* backoff * Math.pow(2, attempt)
BackoffDelay(attempt) == DefaultBackoff * Pow2(attempt)

\* A last-attempt test that is off by one: the error of the last attempt is
\* swallowed and the loop runs out.
IsLastAttempt_OffByOne(attempt, maxRetries) == attempt = maxRetries + 1

\* if (attempt === maxRetries) throw error
IsLastAttempt(attempt, maxRetries) == attempt = maxRetries

\* The for loop's condition: attempt <= maxRetries
LoopContinues(attempt, maxRetries) == attempt <= maxRetries

InitRetry ==
    /\ rMaxRetries = DefaultMaxRetries
    /\ rAttempt = 0
    /\ rPc = "idle"
    /\ rErrors = <<>>
    /\ rOutcome = "none"
    /\ rDelay = 0

\* executeWithRetry(fn, maxRetries) is called: attempt = 0, the loop condition
\* holds (maxRetries >= 0) and fn() is started.
RetryCall(maxRetries) ==
    /\ rPc = "idle"
    /\ rMaxRetries' = maxRetries
    /\ rAttempt' = 0
    /\ rPc' = "call"
    /\ UNCHANGED <<rErrors, rOutcome, rDelay>>
    /\ UNCHANGED nonRetryVars

\* return await fn(): fn resolves.
RetryFnResolves ==
    /\ rPc = "call"
    /\ rPc' = "done"
    /\ rOutcome' = "ok"
    /\ UNCHANGED <<rMaxRetries, rAttempt, rErrors, rDelay>>
    /\ UNCHANGED nonRetryVars

\* fn rejects with e: the catch block rethrows on the last attempt, else it
\* computes the delay and sleeps.
RetryFnRejects(e) ==
    /\ rPc = "call"
    /\ rErrors' = Append(rErrors, e)
    /\ IF IsLastAttempt(rAttempt, rMaxRetries)
       THEN /\ rPc' = "done"
            /\ rOutcome' = e
            /\ UNCHANGED rDelay
       ELSE /\ rPc' = "wait"
            /\ rDelay' = BackoffDelay(rAttempt)
            /\ UNCHANGED rOutcome
    /\ UNCHANGED <<rMaxRetries, rAttempt>>
    /\ UNCHANGED nonRetryVars

\* The setTimeout fires: attempt++, and the loop condition is tested; a loop
\* that runs out falls off the function's end (it returns undefined).
RetryWakes ==
    /\ rPc = "wait"
    /\ rAttempt' = rAttempt + 1
    /\ IF LoopContinues(rAttempt + 1, rMaxRetries)
       THEN /\ rPc' = "call"
            /\ UNCHANGED rOutcome
       ELSE /\ rPc' = "done"
            /\ rOutcome' = "undefined"
    /\ UNCHANGED <<rMaxRetries, rErrors, rDelay>>
    /\ UNCHANGED nonRetryVars

NextRetry ==
    \/ \E m \in RetryCounts : RetryCall(m)
    \/ RetryFnResolves
    \/ \E e \in ErrorKinds : RetryFnRejects(e)
    \/ RetryWakes

\* ---- Claims about the retry loop

\* The number of times fn has been called so far.
RetryCalls == Len(rErrors) + (IF rPc = "call" \/ rOutcome = "ok" THEN 1 ELSE 0)

\* C5: an error that is not transient is never followed by another attempt:
\* it is the only error fn threw and it has been surfaced to the caller.
C5_PermanentErrorNotRetried ==
    \A i \in 1..Len(rErrors) :
        rErrors[i] \in PermanentErrors =>
            /\ i = 1
            /\ Len(rErrors) = 1
            /\ rPc = "done"
            /\ rOutcome = rErrors[i]

\* C6 (the safety part): fn is called at most maxRetries + 1 times; a call
\* that ends in an error made exactly maxRetries + 1 attempts, every one of
\* them failed, and the error surfaced is the last one thrown; a call that
\* ends in a result ends with the first attempt that succeeded.
C6_Bounded ==
    /\ RetryCalls <= rMaxRetries + 1
    /\ rAttempt <= rMaxRetries
    /\ rPc = "done" =>
          \/ /\ rOutcome = "ok"
             /\ rAttempt = Len(rErrors)
          \/ /\ rOutcome \in ErrorKinds
             /\ Len(rErrors) = rMaxRetries + 1
             /\ rOutcome = rErrors[Len(rErrors)]

\* C6: the retry loop makes at most maxRetries + 1 attempts, surfaces the last
\* error after that many failures or the first successful result, and always
\* terminates.
C6_RetryTerminates ==
    /\ []C6_Bounded
    /\ [][rPc = "done" => (rPc' = "done" /\ rErrors' = rErrors)]_vars
    /\ <>(rPc = "done")

\* C6's case: with the default of 3 retries, 4 attempts failed transiently and
\* the last error was surfaced.
C6_Witness ==
    /\ rPc = "done"
    /\ rMaxRetries = 3
    /\ Len(rErrors) = 4
    /\ \A i \in 1..4 : rErrors[i] \in TransientErrors
    /\ rOutcome = rErrors[4]

(***************************************************************************)
(* batch_embeddings, and Promise.all over the chunks                       *)
(***************************************************************************)

\* The texts and models a batch is made of, and the longest batch.
NumTexts == 2
MaxBatch == 2

TextIds == 1..NumTexts
ModelIds == {1, 2}

\* All sequences over S of length at most n.
SeqsUpTo(S, n) == UNION {[1..k -> S] : k \in 0..n}

\* The embedding service, deterministic per (model, text): the vector of
\* POST /api/embed {model, input: text}.
OllamaEmbed(model, text) == <<text + model, text * model, model>>

\* response.data of /api/embed: {embeddings: [vector]}
EmbedResponse(model, text) == [embeddings |-> <<OllamaEmbed(model, text)>>]

\* A push that puts the new element first.
Push_Front(list, item) == <<item>> \o list

\* embeddings.push(item)
Push(list, item) == Append(list, item)

\* The handler's successful response: {model, count, embeddings}.
BatchResponse(model, embeddings) ==
    [isError |-> FALSE, model |-> model, count |-> Len(embeddings),
     embeddings |-> embeddings]

\* The catch block's response: the error text and isError: true.
ErrorResponse == [isError |-> TRUE, model |-> 0, count |-> 0, embeddings |-> <<>>]

InitBatch ==
    /\ bePc = "idle"
    /\ beModel = 1
    /\ beTexts = <<>>
    /\ beEmbeddings = <<>>
    /\ beResponse = "none"
    /\ paPc = "idle"
    /\ paModel = 1
    /\ paChunks = <<>>
    /\ paSettled = <<>>
    /\ paOrder = <<>>
    /\ paEmbeddings = <<>>

\* The tool is called: const embeddings = []; the loop starts, and with no
\* texts the response is built at once.
BatchCall(model, texts) ==
    /\ bePc = "idle"
    /\ beModel' = model
    /\ beTexts' = texts
    /\ beEmbeddings' = <<>>
    /\ IF texts = <<>>
       THEN /\ bePc' = "done"
            /\ beResponse' = BatchResponse(model, <<>>)
       ELSE /\ bePc' = "loop"
            /\ beResponse' = "none"
    /\ UNCHANGED <<paPc, paModel, paChunks, paSettled, paOrder, paEmbeddings>>
    /\ UNCHANGED nonBatchVars

\* The awaited axios.post of the current text resolves: push {text,
\* embedding: response.data.embeddings[0]}; after the last text, respond.
BatchPostResolves ==
    /\ bePc = "loop"
    /\ LET text == beTexts[Len(beEmbeddings) + 1]
           response == EmbedResponse(beModel, text)
           pushed == Push(beEmbeddings,
                          [text |-> text, embedding |-> response.embeddings[1]])
       IN /\ beEmbeddings' = pushed
          /\ IF Len(pushed) = Len(beTexts)
             THEN /\ bePc' = "done"
                  /\ beResponse' = BatchResponse(beModel, pushed)
             ELSE UNCHANGED <<bePc, beResponse>>
    /\ UNCHANGED <<beModel, beTexts>>
    /\ UNCHANGED <<paPc, paModel, paChunks, paSettled, paOrder, paEmbeddings>>
    /\ UNCHANGED nonBatchVars

\* The awaited axios.post rejects: the handler's catch answers isError.
BatchPostRejects ==
    /\ bePc = "loop"
    /\ bePc' = "done"
    /\ beResponse' = ErrorResponse
    /\ UNCHANGED <<beModel, beTexts, beEmbeddings>>
    /\ UNCHANGED <<paPc, paModel, paChunks, paSettled, paOrder, paEmbeddings>>
    /\ UNCHANGED nonBatchVars

\* Promise.all(chunks.map(chunk => generateEmbedding(chunk, model))): every
\* call is started at once.
AllStart(model, chunks) ==
    /\ paPc = "idle"
    /\ paModel' = model
    /\ paChunks' = chunks
    /\ paSettled' = [i \in 1..Len(chunks) |-> <<>>]
    /\ paOrder' = <<>>
    /\ IF chunks = <<>>
       THEN paPc' = "done"
       ELSE paPc' = "awaiting"
    /\ paEmbeddings' = <<>>
    /\ UNCHANGED <<bePc, beModel, beTexts, beEmbeddings, beResponse>>
    /\ UNCHANGED nonBatchVars

\* One of the pending calls resolves, in any order; Promise.all resolves with
\* the values at their inputs' positions once none is pending.
AllOneResolves(i) ==
    /\ paPc = "awaiting"
    /\ i \in 1..Len(paChunks)
    /\ paSettled[i] = <<>>
    /\ LET settled == [paSettled EXCEPT ![i] = OllamaEmbed(paModel, paChunks[i])]
       IN /\ paSettled' = settled
          /\ paOrder' = Append(paOrder, i)
          /\ IF \A j \in 1..Len(paChunks) : settled[j] # <<>>
             THEN /\ paPc' = "done"
                  /\ paEmbeddings' = settled
             ELSE UNCHANGED <<paPc, paEmbeddings>>
    /\ UNCHANGED <<paModel, paChunks>>
    /\ UNCHANGED <<bePc, beModel, beTexts, beEmbeddings, beResponse>>
    /\ UNCHANGED nonBatchVars

\* One of the pending calls rejects: Promise.all rejects.
AllOneRejects(i) ==
    /\ paPc = "awaiting"
    /\ i \in 1..Len(paChunks)
    /\ paSettled[i] = <<>>
    /\ paPc' = "rejected"
    /\ UNCHANGED <<paModel, paChunks, paSettled, paOrder, paEmbeddings>>
    /\ UNCHANGED <<bePc, beModel, beTexts, beEmbeddings, beResponse>>
    /\ UNCHANGED nonBatchVars

NextBatch ==
    \/ \E m \in ModelIds, ts \in SeqsUpTo(TextIds, MaxBatch) : BatchCall(m, ts)
    \/ BatchPostResolves
    \/ BatchPostRejects
    \/ \E m \in ModelIds, ts \in SeqsUpTo(TextIds, MaxBatch) : AllStart(m, ts)
    \/ \E i \in 1..MaxBatch : AllOneResolves(i)
    \/ \E i \in 1..MaxBatch : AllOneRejects(i)

\* ---- Claims about the batch

\* C7: a batch that succeeded returns one vector per input text, and result i
\* is the text and the embedding of input text i, in batch_embeddings and in
\* the Promise.all over the chunks, whatever order the calls resolved in.
C7_BatchKeepsOrder ==
    /\ (bePc = "done" /\ ~beResponse.isError) =>
          /\ beResponse.count = Len(beTexts)
          /\ Len(beResponse.embeddings) = Len(beTexts)
          /\ \A i \in 1..Len(beTexts) :
                beResponse.embeddings[i] =
                    [text |-> beTexts[i],
                     embedding |-> OllamaEmbed(beModel, beTexts[i])]
    /\ paPc = "done" =>
          /\ Len(paEmbeddings) = Len(paChunks)
          /\ \A i \in 1..Len(paChunks) :
                paEmbeddings[i] = OllamaEmbed(paModel, paChunks[i])

\* C7's case: a batch of two different texts succeeded, and a Promise.all of
\* two different chunks resolved whose second call resolved first.
C7_Witness ==
    /\ bePc = "done"
    /\ ~beResponse.isError
    /\ Len(beTexts) >= 2
    /\ beTexts[1] # beTexts[2]
    /\ paPc = "done"
    /\ Len(paChunks) >= 2
    /\ paChunks[1] # paChunks[2]
    /\ paOrder[1] = 2

(***************************************************************************)
(* The embedding cache in front of generateEmbedding                       *)
(***************************************************************************)

\* 24*3600*1000: the age (ms) below which a cached entry is used
CacheTTL == 86400000

\* The entry-count ceiling of the model's cache (10000 in the source), the
\* clients that call getEmbedding concurrently, the clock ticks and the
\* getEmbedding calls the model explores.
MaxCacheSize == 2
NumClients == 1
MaxCacheTicks == 2
MaxCacheCalls == 4

Clients == 1..NumClients

\* The clock advances in half-TTL steps.
EcTickMs == CacheTTL \div 2

\* Strings are sequences of characters.  Ollama model names carry a tag after
\* a colon ("name:tag"), and a text is any string.
CacheModels == {<<"m">>, <<"m", ":", "v">>}
CacheTexts == {<<"t">>, <<"v", ":", "t">>}

CharCode(ch) == CASE ch = "m" -> 1 [] ch = "t" -> 2 [] ch = "v" -> 3 [] OTHER -> 4

RECURSIVE StrCode(_)
\* A number that identifies the string s.
StrCode(s) == IF s = <<>> THEN 0 ELSE CharCode(Head(s)) + 5 * StrCode(Tail(s))

\* generateEmbedding(text, model) when it resolves: deterministic per
\* (model, text), and different for different pairs.
GatewayEmbed(model, text) == <<StrCode(model), StrCode(text)>>

\* const cacheKey = `${model}:${text}`
CacheKey(model, text) == model \o <<":">> \o text

\* embeddingCache.get(key): the entry's index, or 0
CacheIndex(cache, key) ==
    IF \E i \in 1..Len(cache) : cache[i].key = key
    THEN CHOOSE i \in 1..Len(cache) : cache[i].key = key
    ELSE 0

\* A freshness test that still uses an entry of exactly the TTL's age.
IsFresh_Inclusive(entry, now) == now - entry.created_at <= CacheTTL

\* Date.now() - cached.created_at < 24*3600*1000
IsFresh(entry, now) == now - entry.created_at < CacheTTL

\* embeddingCache.set(key, entry): an existing key keeps its place in the
\* Map's order, a new key goes last.
CacheSet(cache, entry) ==
    LET i == CacheIndex(cache, entry.key)
    IN IF i = 0 THEN Append(cache, entry) ELSE [cache EXCEPT ![i] = entry]

\* The order of use with key k used last.
MoveLast(used, k) == SelectSeq(used, LAMBDA x : x # k) \o <<k>>

\* evictLRU(): removes the entry that is first in the Map's order.
evictLRU(cache) == Tail(cache)

InitCache ==
    /\ embeddingCache = <<>>
    /\ ecNow = 0
    /\ ecPc = [c \in Clients |-> "idle"]
    /\ ecModel = [c \in Clients |-> <<>>]
    /\ ecText = [c \in Clients |-> <<>>]
    /\ ecResult = [c \in Clients |-> "none"]
    /\ ecHit = [c \in Clients |-> FALSE]
    /\ ecCalls = 0
    /\ lastPut = [set |-> FALSE, model |-> <<>>, text |-> <<>>,
                   embedding |-> <<>>, at |-> 0]
    /\ ecUsed = <<>>

\* Time passes.
EcTick ==
    /\ ecNow < MaxCacheTicks * EcTickMs
    /\ ecNow' = ecNow + EcTickMs
    /\ UNCHANGED <<embeddingCache, ecPc, ecModel, ecText, ecResult, ecHit,
                   ecCalls, lastPut, ecUsed>>
    /\ UNCHANGED nonCacheVars

\* getEmbedding(text, model) up to its await: a fresh cached entry is counted
\* and returned; otherwise generateEmbedding is started.
GetEmbedding(c, text, model) ==
    /\ ecPc[c] = "idle"
    /\ ecCalls < MaxCacheCalls
    /\ ecCalls' = ecCalls + 1
    /\ ecModel' = [ecModel EXCEPT ![c] = model]
    /\ ecText' = [ecText EXCEPT ![c] = text]
    /\ LET i == CacheIndex(embeddingCache, CacheKey(model, text))
       IN IF i # 0 /\ IsFresh(embeddingCache[i], ecNow)
          THEN /\ embeddingCache' = [embeddingCache EXCEPT
                                        ![i].hit_count = @ + 1]
               /\ ecUsed' = MoveLast(ecUsed, embeddingCache[i].key)
               /\ ecPc' = [ecPc EXCEPT ![c] = "returned"]
               /\ ecResult' = [ecResult EXCEPT ![c] = embeddingCache[i].embedding]
               /\ ecHit' = [ecHit EXCEPT ![c] = TRUE]
          ELSE /\ ecPc' = [ecPc EXCEPT ![c] = "awaiting"]
               /\ UNCHANGED <<embeddingCache, ecResult, ecHit, ecUsed>>
    /\ UNCHANGED <<ecNow, lastPut>>
    /\ UNCHANGED nonCacheVars

\* generateEmbedding resolves: the entry is set, the cache is kept bounded and
\* the embedding is returned.
GenerateResolves(c) ==
    /\ ecPc[c] = "awaiting"
    /\ LET embedding == GatewayEmbed(ecModel[c], ecText[c])
           entry == [key |-> CacheKey(ecModel[c], ecText[c]),
                     embedding |-> embedding,
                     created_at |-> ecNow,
                     hit_count |-> 0]
           set == CacheSet(embeddingCache, entry)
       IN /\ embeddingCache' = IF Len(set) > MaxCacheSize THEN evictLRU(set) ELSE set
          /\ ecUsed' = SelectSeq(MoveLast(ecUsed, entry.key),
                                 LAMBDA k : CacheIndex(embeddingCache', k) # 0)
          /\ ecResult' = [ecResult EXCEPT ![c] = embedding]
          /\ lastPut' = [set |-> TRUE, model |-> ecModel[c], text |-> ecText[c],
                         embedding |-> embedding, at |-> ecNow]
    /\ ecPc' = [ecPc EXCEPT ![c] = "returned"]
    /\ ecHit' = [ecHit EXCEPT ![c] = FALSE]
    /\ UNCHANGED <<ecNow, ecModel, ecText, ecCalls>>
    /\ UNCHANGED nonCacheVars

\* generateEmbedding rejects: getEmbedding rejects, the cache is untouched.
GenerateRejects(c) ==
    /\ ecPc[c] = "awaiting"
    /\ ecPc' = [ecPc EXCEPT ![c] = "returned"]
    /\ ecResult' = [ecResult EXCEPT ![c] = "error"]
    /\ ecHit' = [ecHit EXCEPT ![c] = FALSE]
    /\ UNCHANGED <<embeddingCache, ecNow, ecModel, ecText, ecCalls, lastPut, ecUsed>>
    /\ UNCHANGED nonCacheVars

\* The client takes the embedding or the error; it may call again.
EcReturn(c) ==
    /\ ecPc[c] = "returned"
    /\ ecPc' = [ecPc EXCEPT ![c] = "idle"]
    /\ ecResult' = [ecResult EXCEPT ![c] = "none"]
    /\ ecHit' = [ecHit EXCEPT ![c] = FALSE]
    /\ ecModel' = [ecModel EXCEPT ![c] = <<>>]
    /\ ecText' = [ecText EXCEPT ![c] = <<>>]
    /\ UNCHANGED <<embeddingCache, ecNow, ecCalls, lastPut, ecUsed>>
    /\ UNCHANGED nonCacheVars

NextCache ==
    \/ EcTick
    \/ \E c \in Clients, t \in CacheTexts, m \in CacheModels : GetEmbedding(c, t, m)
    \/ \E c \in Clients : GenerateResolves(c)
    \/ \E c \in Clients : GenerateRejects(c)
    \/ \E c \in Clients : EcReturn(c)

\* ---- Claims about the cache

\* C32: the cache never holds more than its ceiling; a put that would push
\* it over evicts exactly one entry, and that entry is the least recently
\* used one: the entry whose last set or hit is the longest ago.
C32_EvictsLeastRecentlyUsed ==
    [][LET gone == {i \in 1..Len(embeddingCache) :
                       CacheIndex(embeddingCache', embeddingCache[i].key) = 0}
       IN /\ Len(embeddingCache') <= MaxCacheSize
          /\ gone # {} =>
                /\ Cardinality(gone) = 1
                /\ \A i \in gone : embeddingCache[i].key = Head(ecUsed)]_vars

\* C8: a getEmbedding(t, m) that directly follows the put of (m, t, v), with
\* no other put in between, returns v from the cache while less than the TTL
\* (86400000 ms) has passed since the put, and misses (it calls
\* generateEmbedding) once the TTL has passed.
C8_RoundTrip ==
    [][\A c \in Clients :
         (/\ lastPut.set
          /\ ecPc[c] = "idle"
          /\ ecPc'[c] # "idle"
          /\ ecModel'[c] = lastPut.model
          /\ ecText'[c] = lastPut.text)
         => IF ecNow - lastPut.at < 86400000
            THEN /\ ecPc'[c] = "returned"
                 /\ ecHit'[c]
                 /\ ecResult'[c] = lastPut.embedding
            ELSE /\ ecPc'[c] = "awaiting"
                 /\ ~ecHit'[c]]_vars

\* C8's case: some time after the last put, but within the TTL, a get of the
\* same (model, text) was answered from the cache.
C8_Witness ==
    \E c \in Clients :
        /\ lastPut.set
        /\ ecPc[c] = "returned"
        /\ ecHit[c]
        /\ ecModel[c] = lastPut.model
        /\ ecText[c] = lastPut.text
        /\ ecResult[c] = lastPut.embedding
        /\ ecNow > lastPut.at

\* C9: every cache hit for (model, text) returns the vector the Gateway gives
\* for that same (model, text).
C9_HitIsOwnPair ==
    \A c \in Clients :
        (ecPc[c] = "returned" /\ ecHit[c])
            => ecResult[c] = GatewayEmbed(ecModel[c], ecText[c])

(***************************************************************************)
(* The conversations and memories tables and the search query              *)
(***************************************************************************)

\* The memories the model's table holds at most.
MaxMemories == 2

StoreClients == {1, 2}
ConversationIds == {"c1", "c2"}

\* The contents stored: "A" and "A'" are near-identical, "B" is unrelated
\* and longer.  "Q" is the text of the search queries.
Contents == {"A", "A'", "B"}
Queries == {"Q"}

\* generate_embedding(content), deterministic per content.
ContentEmbedding(content) ==
    CASE content = "A" -> <<10, 0>>
      [] content = "A'" -> <<10, 1>>
      [] content = "Q" -> <<8, 9>>
      [] OTHER -> <<15, 15>>

Dot(u, v) == u[1] * v[1] + u[2] * v[2]

\* embedding <-> query: pgvector's <-> is the Euclidean distance; the search
\* orders by it, and so by its square.
Distance2(u, v) == Dot(<<u[1] - v[1], u[2] - v[2]>>, <<u[1] - v[1], u[2] - v[2]>>)

\* similarity >= threshold, for a threshold of pct/100: the cosine similarity
\* dot/(|u||v|) compared without the square root.
SimilarityAtLeast(u, v, pct) ==
    /\ Dot(u, v) >= 0
    /\ Dot(u, v) * Dot(u, v) * 100 * 100 >= pct * pct * Dot(u, u) * Dot(v, v)

\* threshold: 0.95  // Very similar
DedupThresholdPct == 95
\* threshold?: number,  // Similarity threshold (default: 0.5)
DefaultThresholdPct == 50

\* $3 of the search query: NULL, or the tag the rows must carry.
NoTag == "NULL"
TagFilters == {NoTag, "t"}
\* $4 of the search query: rows created after it pass.  created_at counts
\* the inserts: the first row has created_at 1.
Afters == {0, 1}
TopKs == {1, 2}

Min(a, b) == IF a < b THEN a ELSE b
Range(s) == {s[i] : i \in DOMAIN s}

\* WHERE conversation_id = $2
InScope_Any(row, conversation_id) == TRUE
InScope(row, conversation_id) == row.conversation_id = conversation_id

\* AND is_archived = false AND ($3::text IS NULL OR tags @> $3)
\* AND created_at > $4
Matches(row, conversation_id, tag, after) ==
    /\ InScope(row, conversation_id)
    /\ row.is_archived = FALSE
    /\ (tag = NoTag \/ tag \in row.tags)
    /\ row.created_at > after

\* ORDER BY distance LIMIT $5 over the rows cand: every sequence the query
\* can return.  Rows at equal distance come in an order SQL leaves open.
OrderByLimit(rows, cand, query, top_k) ==
    LET n == Min(top_k, Cardinality(cand))
        d(i) == Distance2(rows[i].embedding, query)
    IN {s \in [1..n -> cand] :
          /\ \A a, b \in 1..n : a < b => (s[a] # s[b] /\ d(s[a]) <= d(s[b]))
          /\ \A j \in cand \ Range(s) : \A a \in 1..n : d(s[a]) <= d(j)}

\* The cutoff taken over the conversation's rows before the filters apply.
QuerySimilar_LimitFirst(rows, conversation_id, query, top_k, tag, after) ==
    LET scope == {i \in 1..Len(rows) : /\ InScope(rows[i], conversation_id)
                                       /\ rows[i].is_archived = FALSE}
        Keep(i) == Matches(rows[i], conversation_id, tag, after)
    IN {SelectSeq(s, Keep) : s \in OrderByLimit(rows, scope, query, top_k)}

\* The search query of search_memories: the memory_ids of the rows it can
\* return, in order.
QuerySimilar(rows, conversation_id, query, top_k, tag, after) ==
    OrderByLimit(rows,
                 {i \in 1..Len(rows) : Matches(rows[i], conversation_id, tag, after)},
                 query, top_k)

\* SELECT id, content, embedding <-> query_embedding AS distance FROM memories
\* ORDER BY distance LIMIT n: the search without a conversation.
QueryAll(rows, query, top_k) ==
    OrderByLimit(rows, 1..Len(rows), query, top_k)

\* The deduplication taken as equality of embeddings.
AboveThreshold_ExactOnly(rows, s, query, pct) ==
    LET Keep(i) == rows[i].embedding = query
    IN SelectSeq(s, Keep)

\* The results of search_memories: the rows of the query whose similarity
\* reaches the threshold.
AboveThreshold(rows, s, query, pct) ==
    LET Keep(i) == SimilarityAtLeast(rows[i].embedding, query, pct)
    IN SelectSeq(s, Keep)

\* The memory_id of a stored memory with this content in this conversation,
\* or 0.
StoredWith(rows, conversation_id, content) ==
    LET same == {i \in 1..Len(rows) :
                    /\ rows[i].conversation_id = conversation_id
                    /\ rows[i].content = content}
    IN IF same = {} THEN 0 ELSE CHOOSE i \in same : \A j \in same : i <= j

NoResult == [kind |-> "none", memory_id |-> 0]

NoResp == [tool |-> "none", conversation_id |-> "", query |-> "", top_k |-> 0,
           tag |-> "", after |-> 0, rows |-> <<>>, results |-> <<>>, memory_id |-> 0,
           names |-> {}, kind |-> "none"]

\* A conversations row: status DEFAULT 'active', memory_count 0.
NewConversation == [memory_count |-> 0, status |-> "active"]

\* A memories row: tags DEFAULT '{}', access_count DEFAULT 0, is_archived
\* DEFAULT false, created_at DEFAULT now.
NewMemory(rows, conversation_id, content) ==
    [memory_id |-> Len(rows) + 1,
     conversation_id |-> conversation_id,
     content |-> content,
     embedding |-> ContentEmbedding(content),
     tags |-> {},
     created_at |-> Len(rows) + 1,
     access_count |-> 0,
     is_archived |-> FALSE]

\* "Default behavior creates an anonymous conversation on first memory
\* store": the conversations table once the store has seen conversation_id.
WithConversation(convs, conversation_id) ==
    [c \in DOMAIN convs \cup {conversation_id} |->
        IF c \in DOMAIN convs THEN convs[c] ELSE NewConversation]

\* The caller of the tools awaits each response before its next call: it
\* has no store_memory in flight and has taken the last response.
CallerIdle ==
    /\ \A c \in StoreClients : smPc[c] = "idle"
    /\ resp.tool = "none"

InitStore ==
    /\ conversations = [c \in {} |-> NewConversation]
    /\ memories = <<>>
    /\ smPc = [c \in StoreClients |-> "idle"]
    /\ smConv = [c \in StoreClients |-> "c1"]
    /\ smContent = [c \in StoreClients |-> "A"]
    /\ smResult = [c \in StoreClients |-> NoResult]
    /\ smDupAtStart = [c \in StoreClients |-> 0]
    /\ smFound = [c \in StoreClients |-> 0]
    /\ smSeenLen = [c \in StoreClients |-> 0]
    /\ resp = NoResp

\* init_conversation: INSERT into conversations.
InitConversation(conv) ==
    /\ resp.tool = "none"
    /\ conv \notin DOMAIN conversations
    /\ conversations' = WithConversation(conversations, conv)
    /\ UNCHANGED <<memories, smPc, smConv, smContent, smResult, smDupAtStart,
                   smFound, smSeenLen, resp>>
    /\ UNCHANGED nonStoreVars

\* store_memory up to the INSERT: the embedding is generated and the
\* deduplication search runs (top_k: 1, threshold: 0.95); a similar memory
\* ends the call with { error: 'Similar memory already exists' }.
StoreMemoryCheck(c, conv, content) ==
    /\ smPc[c] = "idle"
    /\ resp.tool = "none"
    /\ smConv' = [smConv EXCEPT ![c] = conv]
    /\ smContent' = [smContent EXCEPT ![c] = content]
    /\ smDupAtStart' = [smDupAtStart EXCEPT ![c] = StoredWith(memories, conv, content)]
    /\ smSeenLen' = [smSeenLen EXCEPT ![c] = Len(memories)]
    /\ \E rows \in QuerySimilar(memories, conv, ContentEmbedding(content), 1, NoTag, 0) :
          LET similarMemories == AboveThreshold(memories, rows,
                                     ContentEmbedding(content), DedupThresholdPct)
          IN IF Len(similarMemories) > 0
             THEN /\ smPc' = [smPc EXCEPT ![c] = "returned"]
                  /\ smFound' = [smFound EXCEPT ![c] = similarMemories[1]]
                  /\ smResult' = [smResult EXCEPT ![c] =
                                     [kind |-> "error", memory_id |-> 0]]
             ELSE /\ smPc' = [smPc EXCEPT ![c] = "insert"]
                  /\ smFound' = [smFound EXCEPT ![c] = 0]
                  /\ UNCHANGED smResult
    /\ UNCHANGED <<conversations, memories, resp>>
    /\ UNCHANGED nonStoreVars

\* INSERT into memories (conversation_id is a foreign key: a conversation
\* that does not exist yet is created first); the call goes on to update
\* conversation.memory_count.
StoreMemoryInsert(c) ==
    /\ smPc[c] = "insert"
    /\ Len(memories) < MaxMemories
    /\ smPc' = [smPc EXCEPT ![c] = "count"]
    /\ memories' = Append(memories, NewMemory(memories, smConv[c], smContent[c]))
    /\ conversations' = WithConversation(conversations, smConv[c])
    /\ smResult' = [smResult EXCEPT ![c] =
                       [kind |-> "stored", memory_id |-> Len(memories) + 1]]
    /\ UNCHANGED <<smConv, smContent, smDupAtStart, smFound, smSeenLen, resp>>
    /\ UNCHANGED nonStoreVars

\* Update conversation.memory_count, return memory_id.
StoreMemoryCount(c) ==
    /\ smPc[c] = "count"
    /\ smPc' = [smPc EXCEPT ![c] = "returned"]
    /\ conversations' = [conversations EXCEPT ![smConv[c]].memory_count = @ + 1]
    /\ UNCHANGED <<memories, smConv, smContent, smResult, smDupAtStart, smFound,
                   smSeenLen, resp>>
    /\ UNCHANGED nonStoreVars

\* The update of conversation.memory_count fails (the connection drops, the
\* statement times out): the call ends with the error; the INSERT before it
\* was a statement of its own and stays committed.
StoreMemoryCountFails(c) ==
    /\ smPc[c] = "count"
    /\ smPc' = [smPc EXCEPT ![c] = "returned"]
    /\ smResult' = [smResult EXCEPT ![c] = [kind |-> "failed", memory_id |-> 0]]
    /\ UNCHANGED <<conversations, memories, smConv, smContent, smDupAtStart,
                   smFound, smSeenLen, resp>>
    /\ UNCHANGED nonStoreVars

\* The caller takes the output; it may call again.
SmReturn(c) ==
    /\ smPc[c] = "returned"
    /\ smPc' = [smPc EXCEPT ![c] = "idle"]
    /\ smResult' = [smResult EXCEPT ![c] = NoResult]
    /\ smConv' = [smConv EXCEPT ![c] = "c1"]
    /\ smContent' = [smContent EXCEPT ![c] = "A"]
    /\ smDupAtStart' = [smDupAtStart EXCEPT ![c] = 0]
    /\ smFound' = [smFound EXCEPT ![c] = 0]
    /\ smSeenLen' = [smSeenLen EXCEPT ![c] = 0]
    /\ UNCHANGED <<conversations, memories, resp>>
    /\ UNCHANGED nonStoreVars

NextStore ==
    \/ \E conv \in ConversationIds : InitConversation(conv)
    \/ \E c \in StoreClients, conv \in ConversationIds, content \in Contents :
          StoreMemoryCheck(c, conv, content)
    \/ \E c \in StoreClients : StoreMemoryInsert(c)
    \/ \E c \in StoreClients : StoreMemoryCount(c)
    \/ \E c \in StoreClients : StoreMemoryCountFails(c)
    \/ \E c \in StoreClients : SmReturn(c)

\* ---- Claims about store_memory

\* C10: a store_memory of content that the same conversation already holds
\* (the first store had returned before this one began) is reported as an
\* insert that merged into the existing memory, and the conversation still
\* holds that content exactly once.
C10_SecondStoreIsMerge ==
    \A c \in StoreClients :
        (smPc[c] = "returned" /\ smDupAtStart[c] # 0) =>
            /\ smResult[c].kind = "merged"
            /\ smResult[c].memory_id = smDupAtStart[c]
            /\ Cardinality({i \in 1..Len(memories) :
                               /\ memories[i].conversation_id = smConv[c]
                               /\ memories[i].content = smContent[c]}) = 1

\* C11: a store_memory whose deduplication search finds a similar memory
\* returns that memory's id, not an error and not a new id, and adds exactly
\* one to that memory's access_count.
C11_DuplicateReturnsExistingId ==
    [][\A c \in StoreClients :
          (smPc[c] = "idle" /\ smPc'[c] = "returned" /\ smFound'[c] # 0) =>
             /\ smResult'[c].kind # "error"
             /\ smResult'[c].memory_id = smFound'[c]
             /\ memories'[smFound'[c]].access_count
                  = memories[smFound'[c]].access_count + 1]_vars

\* C20: a store_memory into a conversation that was never created is
\* rejected with a ValidationError, stores nothing and creates no
\* conversation; no stored memory references a conversation that does not
\* exist.
C20_UnknownConversationRejected ==
    [][/\ \A c \in StoreClients :
             (smPc[c] = "idle" /\ smPc'[c] # "idle"
                 /\ smConv'[c] \notin DOMAIN conversations) =>
                /\ smPc'[c] = "returned"
                /\ smResult'[c].kind = "ValidationError"
       /\ \A c \in StoreClients :
             (smPc[c] # "idle" /\ smPc'[c] # smPc[c]
                 /\ smConv[c] \notin DOMAIN conversations) =>
                /\ memories' = memories
                /\ conversations' = conversations
       /\ \A i \in 1..Len(memories') :
             memories'[i].conversation_id \in DOMAIN conversations']_vars

\* Rows i and j of memories are near-duplicates in one conversation: their
\* similarity reaches the deduplication threshold.
NearDuplicates(i, j) ==
    /\ memories[i].conversation_id = memories[j].conversation_id
    /\ SimilarityAtLeast(memories[i].embedding, memories[j].embedding,
                         DedupThresholdPct)

C31_MemoryCountIsNumberOfMemories ==
    (\A c \in StoreClients : smPc[c] # "count") =>
        \A conv \in DOMAIN conversations :
            conversations[conv].memory_count
                = Cardinality({i \in 1..Len(memories) :
                                  memories[i].conversation_id = conv})

(***************************************************************************)
(* search_memories, search_all_conversations, update_memory_metadata and   *)
(* end_conversation                                                        *)
(***************************************************************************)

SearchTools == {"search_memories", "search_all_conversations"}

\* search_memories that also counts an access on every row it returns.
SearchMemories_Touching(conv, query, top_k, tag, after) ==
    /\ CallerIdle
    /\ \E rows \in QuerySimilar(memories, conv, ContentEmbedding(query),
                                top_k, tag, after) :
          /\ resp' = [NoResp EXCEPT
                         !.tool = "search_memories",
                         !.conversation_id = conv,
                         !.query = query,
                         !.top_k = top_k,
                         !.tag = tag,
                         !.after = after,
                         !.rows = rows,
                         !.results = AboveThreshold(memories, rows,
                                         ContentEmbedding(query), DefaultThresholdPct),
                         !.kind = "ok"]
          /\ memories' = [i \in 1..Len(memories) |->
                             IF i \in Range(rows)
                             THEN [memories[i] EXCEPT !.access_count = @ + 1]
                             ELSE memories[i]]
    /\ UNCHANGED <<conversations, smPc, smConv, smContent, smResult,
                   smDupAtStart, smFound, smSeenLen>>
    /\ UNCHANGED nonStoreVars

\* search_memories(conversation_id, query, top_k, threshold default,
\* filters): the embedding of the query, the search query, the threshold.
SearchMemories(conv, query, top_k, tag, after) ==
    /\ CallerIdle
    /\ \E rows \in QuerySimilar(memories, conv, ContentEmbedding(query),
                                top_k, tag, after) :
          resp' = [NoResp EXCEPT
                      !.tool = "search_memories",
                      !.conversation_id = conv,
                      !.query = query,
                      !.top_k = top_k,
                      !.tag = tag,
                      !.after = after,
                      !.rows = rows,
                      !.results = AboveThreshold(memories, rows,
                                      ContentEmbedding(query), DefaultThresholdPct),
                      !.kind = "ok"]
    /\ UNCHANGED <<conversations, memories, smPc, smConv, smContent, smResult,
                   smDupAtStart, smFound, smSeenLen>>
    /\ UNCHANGED nonStoreVars

\* search_all_conversations(query, top_k): the search over every
\* conversation's memories.
SearchAllConversations(query, top_k) ==
    /\ CallerIdle
    /\ \E rows \in QueryAll(memories, ContentEmbedding(query), top_k) :
          resp' = [NoResp EXCEPT
                      !.tool = "search_all_conversations",
                      !.query = query,
                      !.top_k = top_k,
                      !.rows = rows,
                      !.results = AboveThreshold(memories, rows,
                                      ContentEmbedding(query), DefaultThresholdPct),
                      !.kind = "ok"]
    /\ UNCHANGED <<conversations, memories, smPc, smConv, smContent, smResult,
                   smDupAtStart, smFound, smSeenLen>>
    /\ UNCHANGED nonStoreVars

\* The patches of update_memory_metadata the model explores: the fields a
\* patch names, with the tags and the archive flag it carries.  (The rows of
\* the model have no metadata and no relevance_score.)
Patch(names) == [names |-> names, tags |-> {"t"}, archive |-> TRUE]
Patches == {Patch({"tags"}), Patch({"archive"}), Patch({"content"}),
            Patch({"embedding"}), Patch({"tags", "content"})}

\* The patch names content or embedding.
NamesImmutable_ContentOnly(patch) == "content" \in patch.names
NamesImmutable(patch) == patch.names \cap {"content", "embedding"} # {}

\* tags?: string[], archive?: boolean: the row with the fields of the patch.
ApplyPatch(row, patch) ==
    [row EXCEPT !.tags = IF "tags" \in patch.names THEN patch.tags ELSE @,
                !.is_archived = IF "archive" \in patch.names
                                THEN patch.archive ELSE @]

\* update_memory_metadata(memory_id, patch).
UpdateMemoryMetadata(memory_id, patch) ==
    /\ CallerIdle
    /\ memory_id \in 1..Len(memories)
    /\ IF NamesImmutable(patch)
       THEN /\ resp' = [NoResp EXCEPT !.tool = "update_memory_metadata",
                                      !.memory_id = memory_id,
                                      !.names = patch.names,
                                      !.kind = "ValidationError"]
            /\ UNCHANGED memories
       ELSE /\ resp' = [NoResp EXCEPT !.tool = "update_memory_metadata",
                                      !.memory_id = memory_id,
                                      !.names = patch.names,
                                      !.kind = "ok"]
            /\ memories' = [memories EXCEPT ![memory_id] = ApplyPatch(@, patch)]
    /\ UNCHANGED <<conversations, smPc, smConv, smContent, smResult,
                   smDupAtStart, smFound, smSeenLen>>
    /\ UNCHANGED nonStoreVars

\* Mark conversation as 'completed' in database; don't delete data.
Ended_Delete(convs, conv) == [c \in DOMAIN convs \ {conv} |-> convs[c]]
Ended(convs, conv) == [convs EXCEPT ![conv].status = "completed"]

\* end_conversation(conversation_id).
EndConversation(conv) ==
    /\ CallerIdle
    /\ IF conv \in DOMAIN conversations
       THEN /\ conversations' = Ended(conversations, conv)
            /\ resp' = [NoResp EXCEPT !.tool = "end_conversation",
                                      !.conversation_id = conv,
                                      !.kind = "completed"]
       ELSE /\ UNCHANGED conversations
            /\ resp' = [NoResp EXCEPT !.tool = "end_conversation",
                                      !.conversation_id = conv,
                                      !.kind = "error"]
    /\ UNCHANGED <<memories, smPc, smConv, smContent, smResult, smDupAtStart,
                   smFound, smSeenLen>>
    /\ UNCHANGED nonStoreVars

\* The caller takes the response; it may call again.
TakeResponse ==
    /\ resp.tool # "none"
    /\ resp' = NoResp
    /\ UNCHANGED <<conversations, memories, smPc, smConv, smContent, smResult,
                   smDupAtStart, smFound, smSeenLen>>
    /\ UNCHANGED nonStoreVars

\* The contents this caller stores.
ToolContents == {"A", "B"}

\* One caller that awaits each response before its next call.
NextTools ==
    \/ TakeResponse
    \/ \E conv \in ConversationIds : InitConversation(conv)
    \/ \E conv \in ConversationIds, content \in ToolContents :
          StoreMemoryCheck(1, conv, content)
    \/ StoreMemoryInsert(1)
    \/ StoreMemoryCount(1)
    \/ SmReturn(1)
    \/ \E conv \in ConversationIds, query \in Queries, top_k \in TopKs,
          tag \in TagFilters, after \in Afters :
          SearchMemories(conv, query, top_k, tag, after)
    \/ \E query \in Queries, top_k \in TopKs : SearchAllConversations(query, top_k)
    \/ \E memory_id \in 1..MaxMemories, patch \in Patches :
          UpdateMemoryMetadata(memory_id, patch)
    \/ \E conv \in ConversationIds : EndConversation(conv)

\* ---- Claims about the searches

\* u is strictly nearer to q than v by cosine distance: dot(u,q)/|u| is the
\* larger, compared without the square root.
CosineCloser(u, v, q) ==
    LET a == Dot(u, q)
        b == Dot(v, q)
    IN IF a >= 0 /\ b >= 0 THEN a * a * Dot(v, v) > b * b * Dot(u, u)
       ELSE IF a >= 0 THEN TRUE
       ELSE IF b >= 0 THEN FALSE
       ELSE a * a * Dot(v, v) < b * b * Dot(u, u)

\* C13: the search returns at most top_k rows, in ascending cosine distance
\* from the query, and no row of the conversation that passes the filters
\* and was left out is strictly nearer by cosine distance than a row returned.
C13_NearestByCosine ==
    resp.tool = "search_memories" =>
        LET s == resp.rows
            q == ContentEmbedding(resp.query)
            left == {j \in 1..Len(memories) \ Range(s) :
                        /\ memories[j].conversation_id = resp.conversation_id
                        /\ ~memories[j].is_archived
                        /\ (resp.tag = NoTag \/ resp.tag \in memories[j].tags)
                        /\ memories[j].created_at > resp.after}
        IN /\ Len(s) <= resp.top_k
           /\ \A a, b \in 1..Len(s) :
                 a < b => ~CosineCloser(memories[s[b]].embedding,
                                        memories[s[a]].embedding, q)
           /\ \A j \in left : \A a \in 1..Len(s) :
                 ~CosineCloser(memories[j].embedding, memories[s[a]].embedding, q)

ReverseInserted(rows) ==
    [i \in 1..Len(rows) |->
        [rows[Len(rows) + 1 - i] EXCEPT !.memory_id = i, !.created_at = i]]

\* The contents of the rows s names, in order.
ContentsOf(rows, s) == [a \in 1..Len(s) |-> rows[s[a]].content]

\* C15: a search without a created_at window returns the contents in the
\* same order when the same rows were inserted in the reverse order, also
\* among rows at equal distance.
C15_InsertionOrderIndependent ==
    (resp.tool = "search_memories" /\ resp.after = 0) =>
        \A r \in QuerySimilar(ReverseInserted(memories), resp.conversation_id,
                              ContentEmbedding(resp.query), resp.top_k,
                              resp.tag, 0) :
            ContentsOf(ReverseInserted(memories), r) = ContentsOf(memories, resp.rows)

\* C16: search_memories returns only memories of its conversation;
\* search_all_conversations leaves no memory out on account of its
\* conversation: it returns min(top_k, number of memories) rows, the
\* nearest of all.
C16_ConversationScope ==
    /\ resp.tool = "search_memories" =>
          \A a \in 1..Len(resp.rows) :
              memories[resp.rows[a]].conversation_id = resp.conversation_id
    /\ resp.tool = "search_all_conversations" =>
          /\ Len(resp.rows) = Min(resp.top_k, Len(memories))
          /\ \A j \in 1..Len(memories) \ Range(resp.rows) :
                \A a \in 1..Len(resp.rows) :
                    Distance2(memories[resp.rows[a]].embedding,
                              ContentEmbedding(resp.query))
                      <= Distance2(memories[j].embedding,
                                   ContentEmbedding(resp.query))

\* A search of one conversation returned a memory while another
\* conversation holds a memory as near to the query.
C16_Witness ==
    /\ resp.tool = "search_memories"
    /\ Len(resp.rows) > 0
    /\ \E j \in 1..Len(memories) :
          /\ memories[j].conversation_id # resp.conversation_id
          /\ ~memories[j].is_archived
          /\ Distance2(memories[j].embedding, ContentEmbedding(resp.query))
               <= Distance2(memories[resp.rows[1]].embedding,
                           ContentEmbedding(resp.query))

\* ---- Claims about update_memory_metadata and the conversations

\* C17: an update_memory_metadata whose patch names content or embedding is
\* answered with a ValidationError and changes no row; no step changes the
\* content or the embedding of a stored memory.
C17_ContentWriteOnce ==
    [][/\ \A i \in 1..Len(memories) :
             /\ i <= Len(memories')
             /\ memories'[i].content = memories[i].content
             /\ memories'[i].embedding = memories[i].embedding
       /\ (resp'.tool = "update_memory_metadata"
              /\ resp'.names \cap {"content", "embedding"} # {}) =>
             /\ resp'.kind = "ValidationError"
             /\ memories' = memories]_vars

\* An update that names content was answered with a ValidationError.
C17_Witness ==
    /\ resp.tool = "update_memory_metadata"
    /\ "content" \in resp.names
    /\ resp.kind = "ValidationError"
    /\ resp.memory_id \in 1..Len(memories)

\* C18: a store_memory into a completed conversation is rejected with a
\* ConflictError and leaves the memories and the conversation's
\* memory_count as they were.
C18_ArchivedConversationRejectsStore ==
    [][\A c \in StoreClients :
          /\ (smPc[c] = "idle" /\ smPc'[c] # "idle"
                 /\ smConv'[c] \in DOMAIN conversations
                 /\ conversations[smConv'[c]].status = "completed") =>
                /\ smPc'[c] = "returned"
                /\ smResult'[c].kind = "ConflictError"
          /\ (smPc[c] = "insert" /\ smPc'[c] = "count"
                 /\ smConv[c] \in DOMAIN conversations
                 /\ conversations[smConv[c]].status = "completed") =>
                /\ memories' = memories
                /\ conversations' = conversations]_vars

\* C19: a conversation starts active and only ever becomes completed; a
\* completed conversation stays completed and is never deleted, no memory is
\* deleted or moved to another conversation, and a search of a completed
\* conversation returns its memories as a search of an active one does.
C19_ArchivedIsTerminal ==
    [][/\ \A conv \in ConversationIds :
             /\ (conv \notin DOMAIN conversations /\ conv \in DOMAIN conversations')
                   => conversations'[conv].status = "active"
             /\ conv \in DOMAIN conversations =>
                   /\ conv \in DOMAIN conversations'
                   /\ conversations[conv].status = "completed"
                         => conversations'[conv].status = "completed"
                   /\ conversations'[conv].status \in {"active", "completed"}
       /\ \A i \in 1..Len(memories) :
             /\ i <= Len(memories')
             /\ memories'[i].memory_id = memories[i].memory_id
             /\ memories'[i].conversation_id = memories[i].conversation_id
       /\ (resp'.tool = "search_memories"
              /\ resp'.conversation_id \in DOMAIN conversations'
              /\ conversations'[resp'.conversation_id].status = "completed") =>
             Len(resp'.rows) =
                 Min(resp'.top_k,
                     Cardinality({j \in 1..Len(memories') :
                         /\ memories'[j].conversation_id = resp'.conversation_id
                         /\ ~memories'[j].is_archived
                         /\ (resp'.tag = NoTag \/ resp'.tag \in memories'[j].tags)
                         /\ memories'[j].created_at > resp'.after}))]_vars

\* A search of a completed conversation returned a memory of it.
C19_Witness ==
    /\ resp.tool = "search_memories"
    /\ resp.conversation_id \in DOMAIN conversations
    /\ conversations[resp.conversation_id].status = "completed"
    /\ Len(resp.rows) > 0

(***************************************************************************)
(* Batch insert over the connection pool                                   *)
(***************************************************************************)

\* The connections of the pool the model explores (max: DB_POOL_SIZE), and
\* the longest batch.
NumConns == 2
MaxBatchRows == 2

Connections == 1..NumConns

\* The clients pool.query can run a statement on: the idle client that
\* went back to the pool last, and when another operation has that one
\* checked out, any client no operation has checked out.
IdleClients ==
    IF ~pcHeld[pcLast] THEN {pcLast} ELSE {k \in Connections : ~pcHeld[k]}

InitPool ==
    /\ pcInTxn = [k \in Connections |-> FALSE]
    /\ pcPending = [k \in Connections |-> {}]
    /\ pcHeld = [k \in Connections |-> FALSE]
    /\ pcLast = 1
    /\ table = {}
    /\ ibPc = "idle"
    /\ ibMemories = <<>>
    /\ ibFailAt = 0
    /\ ibIdx = 0
    /\ ibOutcome = "none"
    /\ ibBefore = {}

\* The batch insert is called with n memories; the INSERT of memory failAt
\* fails (0: none does).
InsertBatch(n, failAt) ==
    /\ ibPc = "idle"
    /\ ibPc' = "begin"
    /\ ibMemories' = [i \in 1..n |-> i]
    /\ ibFailAt' = failAt
    /\ ibBefore' = table
    /\ UNCHANGED <<pcInTxn, pcPending, pcHeld, pcLast, table, ibIdx, ibOutcome>>
    /\ UNCHANGED nonPoolVars

\* await pool.query('BEGIN'), on client k.
QueryBegin(k) ==
    /\ ibPc = "begin"
    /\ k \in IdleClients
    /\ pcLast' = k
    /\ pcInTxn' = [pcInTxn EXCEPT ![k] = TRUE]
    /\ ibPc' = "loop"
    /\ ibIdx' = 1
    /\ UNCHANGED <<pcPending, pcHeld, table, ibMemories, ibFailAt, ibOutcome,
                   ibBefore>>
    /\ UNCHANGED nonPoolVars

\* await pool.query(insertMemorySql, insertMemoryValues), on client k: the
\* row joins the transaction open on k, or is committed at once when k has
\* none.  A failing INSERT throws, and aborts the transaction open on k.
QueryInsert(k) ==
    /\ ibPc = "loop"
    /\ k \in IdleClients
    /\ pcLast' = k
    /\ IF ibIdx = ibFailAt
       THEN /\ ibPc' = "catch"
            /\ pcPending' = [pcPending EXCEPT ![k] = {}]
            /\ UNCHANGED <<table, ibIdx>>
       ELSE /\ IF pcInTxn[k]
               THEN /\ pcPending' = [pcPending EXCEPT ![k] = @ \cup {ibMemories[ibIdx]}]
                    /\ UNCHANGED table
               ELSE /\ table' = table \cup {ibMemories[ibIdx]}
                    /\ UNCHANGED pcPending
            /\ ibIdx' = ibIdx + 1
            /\ ibPc' = IF ibIdx = Len(ibMemories) THEN "commit" ELSE "loop"
    /\ UNCHANGED <<pcInTxn, pcHeld, ibMemories, ibFailAt, ibOutcome, ibBefore>>
    /\ UNCHANGED nonPoolVars

\* await pool.query('COMMIT'), on client k.
QueryCommit(k) ==
    /\ ibPc = "commit"
    /\ k \in IdleClients
    /\ pcLast' = k
    /\ table' = IF pcInTxn[k] THEN table \cup pcPending[k] ELSE table
    /\ pcPending' = [pcPending EXCEPT ![k] = {}]
    /\ pcInTxn' = [pcInTxn EXCEPT ![k] = FALSE]
    /\ ibPc' = "returned"
    /\ ibOutcome' = "resolved"
    /\ UNCHANGED <<pcHeld, ibMemories, ibFailAt, ibIdx, ibBefore>>
    /\ UNCHANGED nonPoolVars

\* catch (error) { await pool.query('ROLLBACK'); throw error; }, on client k.
QueryRollback(k) ==
    /\ ibPc = "catch"
    /\ k \in IdleClients
    /\ pcLast' = k
    /\ pcPending' = [pcPending EXCEPT ![k] = {}]
    /\ pcInTxn' = [pcInTxn EXCEPT ![k] = FALSE]
    /\ ibPc' = "returned"
    /\ ibOutcome' = "thrown"
    /\ UNCHANGED <<pcHeld, table, ibMemories, ibFailAt, ibIdx, ibBefore>>
    /\ UNCHANGED nonPoolVars

\* Another operation's pool.query takes client k for its statement.
OtherCheckout(k) ==
    /\ k \in IdleClients
    /\ pcHeld' = [pcHeld EXCEPT ![k] = TRUE]
    /\ UNCHANGED <<pcInTxn, pcPending, pcLast, table, ibPc, ibMemories, ibFailAt, ibIdx,
                   ibOutcome, ibBefore>>
    /\ UNCHANGED nonPoolVars

\* Its statement is done: the client is back in the pool.
OtherRelease(k) ==
    /\ pcHeld[k]
    /\ pcHeld' = [pcHeld EXCEPT ![k] = FALSE]
    /\ pcLast' = k
    /\ UNCHANGED <<pcInTxn, pcPending, table, ibPc, ibMemories, ibFailAt, ibIdx,
                   ibOutcome, ibBefore>>
    /\ UNCHANGED nonPoolVars

NextPool ==
    \/ \E n \in 1..MaxBatchRows : \E failAt \in 0..n : InsertBatch(n, failAt)
    \/ \E k \in Connections : QueryBegin(k)
    \/ \E k \in Connections : QueryInsert(k)
    \/ \E k \in Connections : QueryCommit(k)
    \/ \E k \in Connections : QueryRollback(k)
    \/ \E k \in Connections : OtherCheckout(k)
    \/ \E k \in Connections : OtherRelease(k)

\* C12: when the batch insert has returned, every memory of the batch is
\* committed or none is, and when an INSERT of the batch failed the table
\* holds what it held before the batch began.
C12_BatchAllOrNothing ==
    ibPc = "returned" =>
        /\ \/ Range(ibMemories) \subseteq table
           \/ Range(ibMemories) \cap table = {}
        /\ ibOutcome = "thrown" => table = ibBefore

(***************************************************************************)
(* Memory lifecycle: RETRIEVE and USE (part_004:604-637)                   *)
(***************************************************************************)

\* The largest access_count the model follows.
MaxAccessCount == 2

\* 4. USE: the caller works with the memories a search returned, and their
\* access metadata is updated.
UseMemories ==
    /\ resp.tool \in SearchTools
    /\ resp.results # <<>>
    /\ \A i \in Range(resp.results) : memories[i].access_count < MaxAccessCount
    /\ memories' = [i \in 1..Len(memories) |->
                       IF i \in Range(resp.results)
                       THEN [memories[i] EXCEPT !.access_count = @ + 1]
                       ELSE memories[i]]
    /\ resp' = NoResp
    /\ UNCHANGED <<conversations, smPc, smConv, smContent, smResult,
                   smDupAtStart, smFound, smSeenLen>>
    /\ UNCHANGED nonStoreVars

\* One caller that stores, searches and uses what the searches return.
NextUse ==
    \/ TakeResponse
    \/ \E conv \in ConversationIds, content \in ToolContents :
          StoreMemoryCheck(1, conv, content)
    \/ StoreMemoryInsert(1)
    \/ StoreMemoryCount(1)
    \/ SmReturn(1)
    \/ \E conv \in ConversationIds, query \in Queries, top_k \in TopKs,
          after \in Afters :
          SearchMemories(conv, query, top_k, NoTag, after)
    \/ \E query \in Queries, top_k \in TopKs : SearchAllConversations(query, top_k)
    \/ UseMemories

\* C24: a search changes no row of memories and no conversation, and a
\* stored row changes only in the step in which the caller uses the result
\* set of a search, which changes the access_count of the rows of that result
\* set and nothing else.
C24_SearchLeavesStoreUnchanged ==
    [][/\ (resp.tool = "none" /\ resp'.tool \in SearchTools)
          => (memories' = memories /\ conversations' = conversations)
       /\ \A i \in 1..Len(memories) :
             (i <= Len(memories') /\ memories'[i] # memories[i])
             => /\ resp.tool \in SearchTools
                /\ resp'.tool = "none"
                /\ i \in Range(resp.results)
                /\ memories'[i] = [memories[i] EXCEPT
                                      !.access_count = memories[i].access_count + 1]
       /\ Len(memories') >= Len(memories)]_vars

\* A search has returned a row that an earlier use had counted as accessed.
C24_Witness ==
    /\ resp.tool \in SearchTools
    /\ \E i \in Range(resp.results) : memories[i].access_count > 0

(***************************************************************************)
(* Ranking: computeRank (part_002:86-103), the ranking formula             *)
(* (part_003:387-400) and the relevance-decay query (PHASE_2:578-590)      *)
(***************************************************************************)

\* Factors and weights are held in hundredths (0..100 stands for 0..1), so a
\* score is held in ten-thousandths.
CandidateIds == {1, 2}
Distances == {10, 50}
AgeDays == {0, 15, 30}
Importances == {20, 80}
SourceTrusts == {50, 100}
EntityRelevances == {0, 100}

\* A row the ranking reads.  age_days is NOW() - created_at in days.
Candidates ==
    [distance : Distances, age_days : AgeDays,
     access_count : 0..MaxAccessCount, importance : Importances,
     source_trust : SourceTrusts, entity_relevance : EntityRelevances]

\* The candidate sets: one row per id.
CandidateSets == [CandidateIds -> Candidates]

\* 1 - (embedding <=> $1) AS similarity
Similarity(distance) == 100 - distance

\* EXTRACT(DAY FROM AGE(NOW(), created_at)): AGE is an interval of years,
\* months and days, and DAY is its days field, the days beyond the whole
\* months (a month taken as 30 days here).
DayOfAge(age_days) == age_days % 30

\* 1.0 / (1 + EXTRACT(DAY FROM AGE(NOW(), created_at))/30), in hundredths.
DecayFactor(age_days) == (100 * 30) \div (30 + DayOfAge(age_days))

\* floor(log2(n)) for n >= 1.
RECURSIVE Log2(_)
Log2(n) == IF n <= 1 THEN 0 ELSE 1 + Log2(n \div 2)

\* frequency, 0-1, from access_count: min(1, log(1 + accessCount) / log(N_max))
\* with N_max = 4, in hundredths.
FrequencyNMax == 4
Frequency(access_count) ==
    Min(100, (100 * Log2(1 + access_count)) \div Log2(FrequencyNMax))

\* interface RankingFactors of a candidate.
RankingFactors(c) ==
    [similarity |-> Similarity(c.distance),
     recency |-> DecayFactor(c.age_days),
     frequency |-> Frequency(c.access_count),
     importance_score |-> c.importance,
     source_trust |-> c.source_trust,
     entity_relevance |-> c.entity_relevance]

\* computeRank with the weight of frequency turned against it.
computeRank_FrequencyPenalty(factors) ==
    factors.similarity * 35 + factors.recency * 20
    + (100 - factors.frequency) * 15 + factors.importance_score * 15
    + factors.source_trust * 10 + factors.entity_relevance * 5

computeRank(factors) ==
    factors.similarity * 35 + factors.recency * 20 + factors.frequency * 15
    + factors.importance_score * 15 + factors.source_trust * 10
    + factors.entity_relevance * 5

\* rank = relevance*0.4 + recency*0.3 + access_frequency*0.2 + user_importance*0.1
RankFormula(relevance, recency, access_frequency, user_importance) ==
    relevance * 40 + recency * 30 + access_frequency * 20 + user_importance * 10

\* (embedding <-> $1) * (1.0 / (1 + DAY/30)) of row a is below that of row b:
\* d_a * 30/(30 + day_a) < d_b * 30/(30 + day_b), cross-multiplied.
WeightedDistanceLess(a, b) ==
    a.distance * (30 + DayOfAge(b.age_days))
        < b.distance * (30 + DayOfAge(a.age_days))

\* ORDER BY weighted_distance LIMIT 5 over the rows: every order of the ids
\* that is ascending in weighted_distance; rows of equal weighted_distance
\* come in whichever order the executor produces them.
DecayLimit == 5
OrderByWeightedDistance(rows) ==
    LET n == Min(DecayLimit, Cardinality(DOMAIN rows))
    IN  {s \in [1..n -> DOMAIN rows] :
            /\ \A i, j \in 1..n : i # j => s[i] # s[j]
            /\ \A i, j \in 1..n :
                   i < j => ~WeightedDistanceLess(rows[s[j]], rows[s[i]])
            /\ \A k \in DOMAIN rows :
                   (\A i \in 1..n : s[i] # k) =>
                       \A i \in 1..n : ~WeightedDistanceLess(rows[k], rows[s[i]])}

InitRank ==
    /\ rkPc = "idle"
    /\ rkIn = <<>>
    /\ rkScore = <<>>
    /\ rkRank = <<>>
    /\ rkOut = <<>>

\* The ranking scores every candidate of a result set.
ScoreCandidates(rows) ==
    /\ rkPc = "idle"
    /\ rkPc' = "scored"
    /\ rkIn' = rows
    /\ rkScore' = [i \in DOMAIN rows |-> computeRank(RankingFactors(rows[i]))]
    /\ rkRank' = [i \in DOMAIN rows |->
                     RankFormula(Similarity(rows[i].distance),
                                 DecayFactor(rows[i].age_days),
                                 Frequency(rows[i].access_count),
                                 rows[i].importance)]
    /\ rkOut' = <<>>
    /\ UNCHANGED nonRankVars

\* The relevance-decay query over the rows.
RelevanceDecayQuery(rows) ==
    /\ rkPc = "idle"
    /\ rkPc' = "decayed"
    /\ rkIn' = rows
    /\ \E s \in OrderByWeightedDistance(rows) : rkOut' = s
    /\ UNCHANGED <<rkScore, rkRank>>
    /\ UNCHANGED nonRankVars

\* The caller takes the scores or the rows.
RkReturn ==
    /\ rkPc \in {"scored", "decayed"}
    /\ rkPc' = "idle"
    /\ rkIn' = <<>>
    /\ rkScore' = <<>>
    /\ rkRank' = <<>>
    /\ rkOut' = <<>>
    /\ UNCHANGED nonRankVars

NextRank ==
    \/ rkPc = "idle" /\ \E rows \in CandidateSets : ScoreCandidates(rows)
    \/ rkPc = "idle" /\ \E rows \in CandidateSets : RelevanceDecayQuery(rows)
    \/ RkReturn

\* The candidates a and b of the scored set differ at most in access_count.
SameButAccessCount(a, b) ==
    /\ rkIn[a].distance = rkIn[b].distance
    /\ rkIn[a].age_days = rkIn[b].age_days
    /\ rkIn[a].importance = rkIn[b].importance
    /\ rkIn[a].source_trust = rkIn[b].source_trust
    /\ rkIn[a].entity_relevance = rkIn[b].entity_relevance

PositionOf(s, k) ==
    IF \E i \in DOMAIN s : s[i] = k
    THEN CHOOSE i \in DOMAIN s : s[i] = k
    ELSE 0

\* C22: older memories are weighted less: the decay factor of every row lies
\* in [0, 1] and is no larger for the older of two rows, and of two rows the
\* relevance-decay query returns that are equal in distance, access_count and
\* importance, the older one never comes before the newer one.
C22_OlderNeverAboveNewer ==
    rkPc = "decayed" =>
        \A a, b \in DOMAIN rkIn :
            /\ DecayFactor(rkIn[a].age_days) \in 0..100
            /\ rkIn[a].age_days > rkIn[b].age_days
               => DecayFactor(rkIn[a].age_days) <= DecayFactor(rkIn[b].age_days)
            /\ (/\ rkIn[a].age_days > rkIn[b].age_days
                /\ rkIn[a].distance = rkIn[b].distance
                /\ rkIn[a].access_count = rkIn[b].access_count
                /\ rkIn[a].importance = rkIn[b].importance
                /\ PositionOf(rkOut, a) > 0
                /\ PositionOf(rkOut, b) > 0)
               => PositionOf(rkOut, a) > PositionOf(rkOut, b)

\* C23: the order of the ranked rows is deterministic: rows of equal
\* composite score come more recent created_at first and then lower id.
C23_TiesByCreatedAtThenId ==
    rkPc = "decayed" =>
        \A a, b \in DOMAIN rkIn :
            (/\ ~WeightedDistanceLess(rkIn[a], rkIn[b])
             /\ ~WeightedDistanceLess(rkIn[b], rkIn[a])
             /\ \/ rkIn[a].age_days < rkIn[b].age_days
                \/ rkIn[a].age_days = rkIn[b].age_days /\ a < b
             /\ PositionOf(rkOut, a) > 0
             /\ PositionOf(rkOut, b) > 0)
            => PositionOf(rkOut, a) < PositionOf(rkOut, b)

(***************************************************************************)
(* Knowledge sources: index_web_page (part_001:538-571),                   *)
(* update_knowledge_source (part_001:600-629), detectSourceChanges         *)
(* (part_001:940-969), the error handling (part_001:1019-1030) and the     *)
(* knowledge_sources table (part_004:225-257)                              *)
(***************************************************************************)

NumVersions == 2
MaxChunks == 2
MaxSourceOps == 3

\* The contents the source's location can serve.
SourceContents == 1..NumVersions

\* sha256(currentContent); content_hash is NULL before the first indexing.
NoHash == <<>>
sha256(content) == <<"sha256", content>>

\* status TEXT DEFAULT 'pending'
DefaultStatus == "pending"

\* The status an indexing run gives the source when it starts, the status a
\* completed run gives it, and the status a detected change gives it.
StatusIndexing == "indexing"
StatusIndexed == "indexed"
StatusStale == "stale"

\* markSourceAsFailed(sourceId, reason)
markSourceAsFailed(status) == "failed"

\* The change detection that finds every fetch changed.
Unchanged_Never(currentHash, content_hash) == FALSE

\* currentHash === storedRecord.content_hash
Unchanged(currentHash, content_hash) == currentHash = content_hash

NoBefore == [status |-> "", content_hash |-> NoHash, previous_hash |-> NoHash,
             total_chunks |-> 0, chunks |-> 0]

InitSource ==
    /\ ksStatus = DefaultStatus
    /\ ksContentHash = NoHash
    /\ ksPreviousHash = NoHash
    /\ ksTotalChunks = 0
    /\ ksChunks = 0
    /\ ksRemote = 1
    /\ ksPc = "idle"
    /\ ksOp = "none"
    /\ ksForce = FALSE
    /\ ksFetched = 0
    /\ ksN = 0
    /\ ksOutcome = "none"
    /\ ksBefore = NoBefore
    /\ ksCreated = 0
    /\ ksOps = 0

\* The content at the source's location changes.
SourceChanges(content) ==
    /\ ksPc = "idle"
    /\ content # ksRemote
    /\ ksRemote' = content
    /\ UNCHANGED <<ksStatus, ksContentHash, ksPreviousHash, ksTotalChunks, ksChunks,
                   ksPc, ksOp, ksForce, ksFetched, ksN, ksOutcome, ksBefore,
                   ksCreated, ksOps>>
    /\ UNCHANGED nonSourceVars

\* What an operation on the source sees when it begins.
Snapshot ==
    [status |-> ksStatus, content_hash |-> ksContentHash,
     previous_hash |-> ksPreviousHash, total_chunks |-> ksTotalChunks,
     chunks |-> ksChunks]

\* index_web_page begins on a pending source.
IndexWebPage ==
    /\ ksPc = "idle"
    /\ ksOps < MaxSourceOps
    /\ ksStatus = DefaultStatus
    /\ ksStatus' = StatusIndexing
    /\ ksPc' = "fetch"
    /\ ksOp' = "index"
    /\ ksForce' = FALSE
    /\ ksBefore' = Snapshot
    /\ ksCreated' = 0
    /\ UNCHANGED <<ksContentHash, ksPreviousHash, ksTotalChunks, ksChunks, ksRemote,
                   ksFetched, ksN, ksOutcome, ksOps>>
    /\ UNCHANGED nonSourceVars

\* update_knowledge_source(source_id, force) begins on an indexed source.
UpdateKnowledgeSource(force) ==
    /\ ksPc = "idle"
    /\ ksOps < MaxSourceOps
    /\ ksStatus = StatusIndexed
    /\ ksPc' = "fetch"
    /\ ksOp' = "update"
    /\ ksForce' = force
    /\ ksBefore' = Snapshot
    /\ ksCreated' = 0
    /\ UNCHANGED <<ksStatus, ksContentHash, ksPreviousHash, ksTotalChunks, ksChunks,
                   ksRemote, ksFetched, ksN, ksOutcome, ksOps>>
    /\ UNCHANGED nonSourceVars

\* 1. Fetch page via HTTP / fetchSource(sourceId).  A failed fetch is a
\* FETCH_ERROR: logToHealthChecks and markSourceAsFailed.
FetchSource(ok) ==
    /\ ksPc = "fetch"
    /\ IF ok
       THEN /\ ksFetched' = ksRemote
            /\ ksPc' = IF ksOp = "update" THEN "compare" ELSE "parse"
            /\ UNCHANGED <<ksStatus, ksOutcome>>
       ELSE /\ ksStatus' = markSourceAsFailed(ksStatus)
            /\ ksOutcome' = "FETCH_ERROR"
            /\ ksPc' = "returned"
            /\ UNCHANGED ksFetched
    /\ UNCHANGED <<ksContentHash, ksPreviousHash, ksTotalChunks, ksChunks, ksRemote,
                   ksOp, ksForce, ksN, ksBefore, ksCreated, ksOps>>
    /\ UNCHANGED nonSourceVars

\* 2. Compare hash with stored hash; 3. if unchanged: return 'unchanged'
\* (unless force: re-index even if unchanged); 4. if changed: the source is
\* stale and is re-indexed.
CompareHash ==
    /\ ksPc = "compare"
    /\ IF Unchanged(sha256(ksFetched), ksContentHash) /\ ~ksForce
       THEN /\ ksOutcome' = "unchanged"
            /\ ksPc' = "returned"
            /\ UNCHANGED ksStatus
       ELSE /\ ksStatus' = StatusStale
            /\ ksPc' = "reindex"
            /\ UNCHANGED ksOutcome
    /\ UNCHANGED <<ksContentHash, ksPreviousHash, ksTotalChunks, ksChunks, ksRemote,
                   ksOp, ksForce, ksFetched, ksN, ksBefore, ksCreated, ksOps>>
    /\ UNCHANGED nonSourceVars

\* Full re-index of a stale source: its old chunks go, the content is
\* indexed again.
Reindex ==
    /\ ksPc = "reindex"
    /\ ksStatus' = StatusIndexing
    /\ ksChunks' = 0
    /\ ksPc' = "parse"
    /\ UNCHANGED <<ksContentHash, ksPreviousHash, ksTotalChunks, ksRemote, ksOp,
                   ksForce, ksFetched, ksN, ksOutcome, ksBefore, ksCreated, ksOps>>
    /\ UNCHANGED nonSourceVars

\* 2.-4. Extract text content, split into n chunks.  A PARSE_ERROR is logged
\* ("still store raw content for manual review").
ParseAndChunk(n) ==
    /\ ksPc = "parse"
    /\ IF n > 0
       THEN /\ ksN' = n
            /\ ksPc' = "embed"
            /\ UNCHANGED ksOutcome
       ELSE /\ ksOutcome' = "PARSE_ERROR"
            /\ ksPc' = "returned"
            /\ UNCHANGED ksN
    /\ UNCHANGED <<ksStatus, ksContentHash, ksPreviousHash, ksTotalChunks, ksChunks,
                   ksRemote, ksOp, ksForce, ksFetched, ksBefore, ksCreated, ksOps>>
    /\ UNCHANGED nonSourceVars

\* 5. Generate embeddings for each chunk: Promise.all over the chunks, before
\* any insert.  An EMBEDDING_ERROR is logged ("partial indexing - store what
\* we have"); the source is not marked.
GenerateEmbeddings(ok) ==
    /\ ksPc = "embed"
    /\ IF ok
       THEN /\ ksPc' = "insert"
            /\ UNCHANGED ksOutcome
       ELSE /\ ksOutcome' = "EMBEDDING_ERROR"
            /\ ksPc' = "returned"
    /\ UNCHANGED <<ksStatus, ksContentHash, ksPreviousHash, ksTotalChunks, ksChunks,
                   ksRemote, ksOp, ksForce, ksFetched, ksN, ksBefore, ksCreated,
                   ksOps>>
    /\ UNCHANGED nonSourceVars

\* 6. Store chunks: BEGIN, insertChunk for every chunk, COMMIT, with no
\* ROLLBACK.  failAt is the chunk whose insert fails (0: none); the chunks
\* inserted before it are committed when BEGIN ran on another connection of
\* the pool than the inserts, and are not when it ran on the same one.
InsertChunks(failAt, autocommitted) ==
    /\ ksPc = "insert"
    /\ failAt <= ksN
    /\ IF failAt = 0
       THEN /\ ksChunks' = ksChunks + ksN
            /\ ksCreated' = ksCreated + ksN
            /\ ksPc' = "record"
            /\ UNCHANGED ksOutcome
       ELSE /\ ksChunks' = ksChunks + (IF autocommitted THEN failAt - 1 ELSE 0)
            /\ ksCreated' = ksCreated + (IF autocommitted THEN failAt - 1 ELSE 0)
            /\ ksOutcome' = "INSERT_ERROR"
            /\ ksPc' = "returned"
    /\ UNCHANGED <<ksStatus, ksContentHash, ksPreviousHash, ksTotalChunks, ksRemote,
                   ksOp, ksForce, ksFetched, ksN, ksBefore, ksOps>>
    /\ UNCHANGED nonSourceVars

\* StoreVersion that writes the new hash and leaves previous_hash alone.
StoreVersion_NoRotation ==
    /\ ksPc = "record"
    /\ ksStatus' = StatusIndexed
    /\ ksContentHash' = sha256(ksFetched)
    /\ ksTotalChunks' = ksN
    /\ ksOutcome' = IF ksOp = "index" THEN "indexed"
                    ELSE IF Unchanged(sha256(ksFetched), ksContentHash)
                         THEN "reindexed" ELSE "updated"
    /\ ksPc' = "returned"
    /\ UNCHANGED <<ksPreviousHash, ksChunks, ksRemote, ksOp, ksForce, ksFetched, ksN,
                   ksBefore, ksCreated, ksOps>>
    /\ UNCHANGED nonSourceVars

\* 7. Create source record in knowledge_sources / 5. store version in
\* knowledge_sources: the hashes rotate, total_chunks is the run's chunks.
StoreVersion ==
    /\ ksPc = "record"
    /\ ksStatus' = StatusIndexed
    /\ ksPreviousHash' = ksContentHash
    /\ ksContentHash' = sha256(ksFetched)
    /\ ksTotalChunks' = ksN
    /\ ksOutcome' = IF ksOp = "index" THEN "indexed"
                    ELSE IF Unchanged(sha256(ksFetched), ksContentHash)
                         THEN "reindexed" ELSE "updated"
    /\ ksPc' = "returned"
    /\ UNCHANGED <<ksChunks, ksRemote, ksOp, ksForce, ksFetched, ksN, ksBefore,
                   ksCreated, ksOps>>
    /\ UNCHANGED nonSourceVars

\* The caller takes the output.
KsReturn ==
    /\ ksPc = "returned"
    /\ ksPc' = "idle"
    /\ ksOp' = "none"
    /\ ksForce' = FALSE
    /\ ksFetched' = 0
    /\ ksN' = 0
    /\ ksOutcome' = "none"
    /\ ksBefore' = NoBefore
    /\ ksCreated' = 0
    /\ ksOps' = ksOps + 1
    /\ UNCHANGED <<ksStatus, ksContentHash, ksPreviousHash, ksTotalChunks, ksChunks,
                   ksRemote>>
    /\ UNCHANGED nonSourceVars

NextSource ==
    \/ \E content \in SourceContents : SourceChanges(content)
    \/ IndexWebPage
    \/ \E force \in BOOLEAN : UpdateKnowledgeSource(force)
    \/ \E ok \in BOOLEAN : FetchSource(ok)
    \/ CompareHash
    \/ Reindex
    \/ \E n \in 0..MaxChunks : ParseAndChunk(n)
    \/ \E ok \in BOOLEAN : GenerateEmbeddings(ok)
    \/ \E failAt \in 0..MaxChunks, autocommitted \in BOOLEAN :
          InsertChunks(failAt, autocommitted)
    \/ StoreVersion
    \/ KsReturn

\* The transitions of the status of a knowledge source.
StatusTransitions ==
    {<<"pending", "indexing">>, <<"indexing", "indexed">>,
     <<"indexing", "failed">>, <<"indexed", "stale">>, <<"stale", "indexing">>}

\* C25: the status of a knowledge source changes only along
\* pending -> indexing, indexing -> indexed, indexing -> failed,
\* indexed -> stale and stale -> indexing.
C25_StatusTransitions ==
    [][ksStatus' # ksStatus => <<ksStatus, ksStatus'>> \in StatusTransitions]_vars

\* C26: an update_knowledge_source whose fetched content hashes to the stored
\* content_hash creates no chunks and leaves status = indexed, content_hash,
\* previous_hash and the chunk counts as they were, in every repetition.
C26_SameHashRefreshIsNoOp ==
    (/\ ksPc = "returned"
     /\ ksOp = "update"
     /\ ksFetched # 0
     /\ sha256(ksFetched) = ksBefore.content_hash)
    => /\ ksCreated = 0
       /\ ksStatus = "indexed"
       /\ Snapshot = ksBefore

\* C26, amended: the same of every update_knowledge_source without force.
C26_UnforcedSameHashRefreshIsNoOp ==
    (/\ ksPc = "returned"
     /\ ksOp = "update"
     /\ ~ksForce
     /\ ksFetched # 0
     /\ sha256(ksFetched) = ksBefore.content_hash)
    => /\ ksCreated = 0
       /\ ksStatus = "indexed"
       /\ Snapshot = ksBefore

\* An update without force has found the content unchanged, and it is not
\* the first update of the source.
C26_Witness ==
    /\ ksPc = "returned"
    /\ ksOp = "update"
    /\ ~ksForce
    /\ ksFetched # 0
    /\ sha256(ksFetched) = ksBefore.content_hash
    /\ ksOps >= 2

\* C27: an indexing run in which the embedding or an insert failed leaves
\* the source in status failed, with total_chunks equal to the number of its
\* chunks that are committed.
C27_FailedRunMarksFailed ==
    (ksPc = "returned" /\ ksOutcome \in {"EMBEDDING_ERROR", "INSERT_ERROR"})
    => /\ ksStatus = "failed"
       /\ ksTotalChunks = ksChunks

MaxParagraphs == 3
MaxParaTokens == 4
ChunkSizes == {2, 3}
Overlaps == {0, 1}

\* A text is a sequence of tokens; the tokens of a content are numbered by
\* their position, and ParaBreak is the "\n\n" between two paragraphs.
ParaBreak == 0

\* The contents: the token counts of the paragraphs, in order.
ParagraphLengths ==
    UNION {[1..n -> 0..MaxParaTokens] : n \in 1..MaxParagraphs}

RECURSIVE TokensBefore(_, _)
TokensBefore(lengths, k) ==
    IF k <= 1 THEN 0 ELSE TokensBefore(lengths, k - 1) + lengths[k - 1]

\* content.split(/\n\n+/): the paragraphs of the content.
Paragraphs(lengths) ==
    [k \in 1..Len(lengths) |->
        [i \in 1..lengths[k] |-> TokensBefore(lengths, k) + i]]

\* estimateTokens(text): the number of tokens of the text.
estimateTokens(text) ==
    Cardinality({i \in 1..Len(text) : text[i] # ParaBreak})

\* The for loop of smartChunk from paragraph k on, and what follows it.
RECURSIVE smartChunkFrom(_, _, _, _, _)
smartChunkFrom(paragraphs, k, chunks, currentChunk, chunkSize) ==
    IF k > Len(paragraphs)
    THEN IF currentChunk # <<>> THEN Append(chunks, currentChunk) ELSE chunks
    ELSE LET para == paragraphs[k]
             paraTokens == estimateTokens(para)
             currentTokens == estimateTokens(currentChunk)
         IN IF currentTokens + paraTokens > chunkSize /\ currentChunk # <<>>
            THEN smartChunkFrom(paragraphs, k + 1, Append(chunks, currentChunk),
                                para, chunkSize)
            ELSE smartChunkFrom(paragraphs, k + 1, chunks,
                                currentChunk
                                  \o (IF currentChunk # <<>> THEN <<ParaBreak>> ELSE <<>>)
                                  \o para,
                                chunkSize)

\* smartChunk whose loop starts the new chunk empty instead of with the
\* paragraph that did not fit.
RECURSIVE smartChunkFrom_DropOnFlush(_, _, _, _, _)
smartChunkFrom_DropOnFlush(paragraphs, k, chunks, currentChunk, chunkSize) ==
    IF k > Len(paragraphs)
    THEN IF currentChunk # <<>> THEN Append(chunks, currentChunk) ELSE chunks
    ELSE LET para == paragraphs[k]
             paraTokens == estimateTokens(para)
             currentTokens == estimateTokens(currentChunk)
         IN IF currentTokens + paraTokens > chunkSize /\ currentChunk # <<>>
            THEN smartChunkFrom_DropOnFlush(paragraphs, k + 1,
                                            Append(chunks, currentChunk),
                                            <<>>, chunkSize)
            ELSE smartChunkFrom_DropOnFlush(paragraphs, k + 1, chunks,
                                currentChunk
                                  \o (IF currentChunk # <<>> THEN <<ParaBreak>> ELSE <<>>)
                                  \o para,
                                chunkSize)

smartChunk_DropOnFlush(content, chunkSize) ==
    smartChunkFrom_DropOnFlush(Paragraphs(content), 1, <<>>, <<>>, chunkSize)

\* smartChunk(content, chunkSize)
smartChunk(content, chunkSize) ==
    smartChunkFrom(Paragraphs(content), 1, <<>>, <<>>, chunkSize)

InitChunk ==
    /\ chPc = "idle"
    /\ chContent = <<>>
    /\ chChunkSize = 0
    /\ chOverlap = 0
    /\ chChunks = <<>>
    /\ chInflight = 0

\* index_web_page step 4, split into chunks: smartChunk takes the content
\* and chunk_size; overlap is an input of the tool.
SplitIntoChunks(content, chunk_size, overlap) ==
    /\ chPc = "idle"
    /\ chPc' = "chunked"
    /\ chContent' = content
    /\ chChunkSize' = chunk_size
    /\ chOverlap' = overlap
    /\ chChunks' = smartChunk(content, chunk_size)
    /\ UNCHANGED chInflight
    /\ UNCHANGED nonChunkVars

\* The fan-out limit: "at most a fixed concurrency limit (default matching
\* the datastore connection-pool size)".
ConcurrencyLimit == NumConns

\* chunks.map(chunk => generateEmbedding(chunk, model)): map calls
\* generateEmbedding for every chunk before Promise.all awaits any of them.
FanOut(chunks) == Len(chunks)

\* const embeddings = await Promise.all(chunks.map(...)): the calls start.
EmbedChunks ==
    /\ chPc = "chunked"
    /\ chInflight' = FanOut(chChunks)
    /\ chPc' = IF FanOut(chChunks) = 0 THEN "embedded" ELSE "embedding"
    /\ UNCHANGED <<chContent, chChunkSize, chOverlap, chChunks>>
    /\ UNCHANGED nonChunkVars

\* One of the calls in flight settles; after the last one the embeddings
\* are there.
EmbedSettles ==
    /\ chPc = "embedding"
    /\ chInflight' = chInflight - 1
    /\ chPc' = IF chInflight = 1 THEN "embedded" ELSE "embedding"
    /\ UNCHANGED <<chContent, chChunkSize, chOverlap, chChunks>>
    /\ UNCHANGED nonChunkVars

\* The chunks and their embeddings go on to the insert.
ChReturn ==
    /\ chPc = "embedded"
    /\ chPc' = "idle"
    /\ chContent' = <<>>
    /\ chChunkSize' = 0
    /\ chOverlap' = 0
    /\ chChunks' = <<>>
    /\ chInflight' = 0
    /\ UNCHANGED nonChunkVars

NextChunk ==
    \/ chPc = "idle" /\ \E content \in ParagraphLengths, chunk_size \in ChunkSizes,
                           overlap \in Overlaps :
                           SplitIntoChunks(content, chunk_size, overlap)
    \/ EmbedChunks
    \/ EmbedSettles
    \/ ChReturn

\* The tokens of a text, without the paragraph breaks.
TokensOf(text) == SelectSeq(text, LAMBDA t : t # ParaBreak)

\* C28: every chunk has at most chunk_size + overlap tokens, also when a
\* single paragraph exceeds the budget.
C28_ChunkWithinBudget ==
    chPc = "chunked" =>
        \A n \in 1..Len(chChunks) :
            estimateTokens(chChunks[n]) <= chChunkSize + chOverlap

\* C29: the last overlap tokens of every chunk but the last are the first
\* tokens of the chunk after it.
C29_ChunksOverlap ==
    chPc = "chunked" =>
        \A n \in 1..(Len(chChunks) - 1) :
            LET a == TokensOf(chChunks[n])
                b == TokensOf(chChunks[n + 1])
            IN /\ Len(a) >= chOverlap
               /\ Len(b) >= chOverlap
               /\ \A i \in 1..chOverlap : b[i] = a[Len(a) - chOverlap + i]

\* The number of tokens of the content.
TotalTokens(lengths) == TokensBefore(lengths, Len(lengths) + 1)

\* The overlap prefix of chunk b after chunk a: the longest beginning of b's
\* tokens that repeats the end of a's tokens.
OverlapPrefixLen(a, b) ==
    LET Fits(k) == /\ k <= Len(a)
                   /\ k <= Len(b)
                   /\ \A i \in 1..k : b[i] = a[Len(a) - k + i]
    IN CHOOSE k \in 0..Len(b) :
          Fits(k) /\ \A j \in 0..Len(b) : Fits(j) => j <= k

\* The tokens of chunks 1..n, each chunk without its overlap prefix.
RECURSIVE Rejoined(_, _)
Rejoined(chunks, n) ==
    IF n = 0 THEN <<>>
    ELSE LET b == TokensOf(chunks[n])
             skip == IF n = 1 THEN 0
                     ELSE OverlapPrefixLen(TokensOf(chunks[n - 1]), b)
         IN Rejoined(chunks, n - 1) \o SubSeq(b, skip + 1, Len(b))

\* C39: chunking loses and invents no content: the chunks, each without its
\* overlap prefix, concatenated in order are the token sequence of the
\* content, so every token is in a chunk and the chunks follow source order.
C39_ChunksRejoinToContent ==
    chPc = "chunked" =>
        Rejoined(chChunks, Len(chChunks))
            = [i \in 1..TotalTokens(chContent) |-> i]

\* A content of several paragraphs has been split into more than one chunk.
C39_Witness ==
    /\ chPc = "chunked"
    /\ Len(chChunks) >= 2
    /\ Len(chContent) >= 3
    /\ Rejoined(chChunks, Len(chChunks)) = [i \in 1..TotalTokens(chContent) |-> i]

\* C34: at every moment of the embedding of a document's chunks, the calls
\* in flight to the embedding service are at most the concurrency limit,
\* however many chunks there are.
C34_FanOutWithinLimit ==
    chInflight <= ConcurrencyLimit

(***************************************************************************)
(* The tool-call handler of the MCP server (index.ts:154-400)              *)
(***************************************************************************)

\* The tools of the switch, and a name that is none of them.
ToolNames == {"list_models", "get_model_info", "generate_embedding",
              "generate_completion", "batch_embeddings", "pull_model",
              "delete_model", "check_ollama_health"}
UnknownTool == "no_such_tool"

\* The branches that read a property of args (args.model) before their
\* request: with no arguments object the read throws a TypeError.
ArgTools == ToolNames \ {"list_models", "check_ollama_health"}

\* The branches that read response.data.embeddings[0].
EmbeddingTools == {"generate_embedding", "batch_embeddings"}

\* The timeout (ms) each branch passes to axios; 0 is axios' default, no
\* timeout, for the two requests that pass none.
RequestTimeout(tool) ==
    CASE tool = "list_models" -> 0
      [] tool = "get_model_info" -> 10000
      [] tool = "generate_embedding" -> 30000
      [] tool = "generate_completion" -> 60000
      [] tool = "batch_embeddings" -> 30000
      [] tool = "pull_model" -> 600000
      [] tool = "delete_model" -> 0
      [] tool = "check_ollama_health" -> 5000

\* The defaults of generate_completion; temperature and top_p in tenths.
DefaultTemperature == 7
DefaultTopK == 40
DefaultTopP == 9

Params == {"temperature", "top_k", "top_p"}

DefaultOf(p) ==
    CASE p = "temperature" -> DefaultTemperature
      [] p = "top_k" -> DefaultTopK
      [] p = "top_p" -> DefaultTopP

\* The values a caller passes: the ends and the middle of the documented
\* temperature range 0.0 - 2.0 (in tenths), and two values of top_k and
\* of top_p (in tenths).
ArgValues(p) ==
    CASE p = "temperature" -> {0, 10, 20}
      [] p = "top_k" -> {0, 40}
      [] p = "top_p" -> {0, 9}

\* The arguments objects: each parameter is there or left out.
CompletionArgs ==
    UNION {{a \in [S -> UNION {ArgValues(p) : p \in Params}] :
               \A p \in S : a[p] \in ArgValues(p)} : S \in SUBSET Params}

\* (args.p as number) || d: d when args.p is undefined, and when it is 0.
OrDefault(args, p, d) ==
    IF p \in DOMAIN args /\ args[p] # 0 THEN args[p] ELSE d

\* options: { temperature, top_k: topK, top_p: topP }
CompletionOptions(args) ==
    [p \in Params |-> OrDefault(args, p, DefaultOf(p))]

NoOptions == [p \in Params |-> 0]

\* A branch's result: { content: [...] }.
ToolResult(text, count) ==
    [isError |-> FALSE, thrown |-> FALSE, text |-> text, count |-> count]

NoResponse == ToolResult("none", 0)

\* A catch that lets the error go on to the caller.
CatchResponse_Rethrow ==
    [isError |-> FALSE, thrown |-> TRUE, text |-> "Error executing tool", count |-> 0]

\* catch (error) { return { content: [`Error executing tool: ...`],
\* isError: true } }
CatchResponse ==
    [isError |-> TRUE, thrown |-> FALSE, text |-> "Error executing tool", count |-> 0]

\* default: return { content: [`Unknown tool: ${toolName}`], isError: true }
UnknownToolResponse ==
    [isError |-> TRUE, thrown |-> FALSE, text |-> "Unknown tool", count |-> 0]

\* check_ollama_health's own catch: { status: "unhealthy", ... }, no isError.
Unhealthy == ToolResult("unhealthy", 0)

InitHandler ==
    /\ hPc = "idle"
    /\ hTool = "none"
    /\ hArgs = <<>>
    /\ hTexts = 0
    /\ hSilent = FALSE
    /\ hSent = 0
    /\ hPushed = 0
    /\ hOptions = NoOptions
    /\ hResponse = NoResponse
    /\ hRaised = FALSE

\* A tools/call request arrives: the switch runs up to the branch's first
\* await.  malformed: the request has no arguments object; silent: the
\* service accepts requests and never answers.
ToolCall(tool, args, n, malformed, silent) ==
    /\ hPc = "idle"
    /\ hTool' = tool
    /\ hArgs' = args
    /\ hTexts' = n
    /\ hSilent' = silent
    /\ hPushed' = 0
    /\ IF tool \notin ToolNames
       THEN /\ hPc' = "responded"
            /\ hResponse' = UnknownToolResponse
            /\ hRaised' = FALSE
            /\ hSent' = 0
            /\ hOptions' = NoOptions
       ELSE IF malformed /\ tool \in ArgTools
       THEN /\ hPc' = "responded"
            /\ hResponse' = CatchResponse
            /\ hRaised' = TRUE
            /\ hSent' = 0
            /\ hOptions' = NoOptions
       ELSE IF tool = "batch_embeddings" /\ n = 0
       THEN /\ hPc' = "responded"
            /\ hResponse' = ToolResult(tool, 0)
            /\ hRaised' = FALSE
            /\ hSent' = 0
            /\ hOptions' = NoOptions
       ELSE /\ hPc' = "awaiting"
            /\ hResponse' = NoResponse
            /\ hRaised' = FALSE
            /\ hSent' = 1
            /\ hOptions' = IF tool = "generate_completion"
                           THEN CompletionOptions(args)
                           ELSE NoOptions
    /\ UNCHANGED nonHandlerVars

\* The branch's error path: the handler's catch, and for
\* check_ollama_health its own.
RequestFails ==
    /\ hPc' = "responded"
    /\ hRaised' = TRUE
    /\ hResponse' = IF hTool = "check_ollama_health" THEN Unhealthy ELSE CatchResponse
    /\ UNCHANGED <<hTool, hArgs, hTexts, hSilent, hSent, hPushed, hOptions>>

\* The awaited request resolves.  A body without embeddings makes
\* response.data.embeddings[0] throw; batch_embeddings pushes and goes on
\* to its next text, or answers after the last one.
RequestResolves(wellFormed) ==
    /\ hPc = "awaiting"
    /\ ~hSilent
    /\ IF ~wellFormed /\ hTool \in EmbeddingTools
       THEN RequestFails
       ELSE IF hTool = "batch_embeddings" /\ hPushed + 1 < hTexts
       THEN /\ hPushed' = hPushed + 1
            /\ hSent' = hSent + 1
            /\ UNCHANGED <<hPc, hTool, hArgs, hTexts, hSilent, hOptions,
                           hResponse, hRaised>>
       ELSE /\ hPc' = "responded"
            /\ hPushed' = IF hTool = "batch_embeddings" THEN hPushed + 1 ELSE hPushed
            /\ hResponse' = ToolResult(hTool, hPushed')
            /\ UNCHANGED <<hTool, hArgs, hTexts, hSilent, hSent, hOptions, hRaised>>
    /\ UNCHANGED nonHandlerVars

\* The awaited request rejects: the service is unreachable or answers with
\* an error status.
RequestRejects ==
    /\ hPc = "awaiting"
    /\ ~hSilent
    /\ RequestFails
    /\ UNCHANGED nonHandlerVars

\* The request's timeout runs out: axios rejects.  A request without a
\* timeout never does.
RequestTimesOut ==
    /\ hPc = "awaiting"
    /\ RequestTimeout(hTool) > 0
    /\ RequestFails
    /\ UNCHANGED nonHandlerVars

\* The result goes to the caller; the next request can come.
HReturn ==
    /\ hPc = "responded"
    /\ hPc' = "idle"
    /\ hTool' = "none"
    /\ hArgs' = <<>>
    /\ hTexts' = 0
    /\ hSilent' = FALSE
    /\ hSent' = 0
    /\ hPushed' = 0
    /\ hOptions' = NoOptions
    /\ hResponse' = NoResponse
    /\ hRaised' = FALSE
    /\ UNCHANGED nonHandlerVars

NextHandler ==
    \/ hPc = "idle" /\ \E tool \in ToolNames \cup {UnknownTool} :
          \E args \in (IF tool = "generate_completion" THEN CompletionArgs ELSE {<<>>}),
             n \in (IF tool = "batch_embeddings" THEN 0..MaxBatch ELSE {0}),
             malformed \in BOOLEAN, silent \in BOOLEAN :
             ToolCall(tool, args, n, malformed, silent)
    \/ \E wellFormed \in BOOLEAN : RequestResolves(wellFormed)
    \/ RequestRejects
    \/ RequestTimesOut
    \/ HReturn

\* ---- Claims about the tool-call handler

\* C35: every tool invocation that awaits the service eventually answers
\* with a result or an error, also when the service accepts the request
\* and never answers: every request is issued with a timeout that ends the
\* wait.
C35_EveryInvocationReturns ==
    (hPc = "awaiting") ~> (hPc = "responded")

\* C36: the options generate_completion sends hold every parameter the
\* caller supplied as supplied, 0 included, and the default (0.7, 40, 0.9)
\* for every parameter the caller left out.
C36_SuppliedOptionsForwarded ==
    (hPc = "awaiting" /\ hTool = "generate_completion") =>
        \A p \in Params :
            hOptions[p] = IF p \in DOMAIN hArgs THEN hArgs[p] ELSE DefaultOf(p)

\* What C37 says of the unknown tool and of batch_embeddings: the handler
\* has not thrown; an unknown tool is answered with isError and no request;
\* a batch whose k-th request failed has issued k requests and answers with
\* no embeddings.
HandlerAnswersFailures ==
    /\ ~hResponse.thrown
    /\ (hPc = "responded" /\ hTool \notin ToolNames) =>
          (hResponse.isError /\ hSent = 0)
    /\ (hPc = "responded" /\ hTool = "batch_embeddings" /\ hRaised) =>
          /\ hResponse.count = 0
          /\ hSent > 0 => hSent = hPushed + 1

\* C37 as stated: the handler never throws, every exception raised in a
\* tool branch is answered with isError = true, an unknown tool is answered
\* with isError = true and no request, and a failed batch stops at the
\* failing request and answers with no embeddings.
C37_ExceptionsAnsweredWithIsError ==
    /\ HandlerAnswersFailures
    /\ (hPc = "responded" /\ hRaised) => hResponse.isError

\* C37, amended: as stated for every branch but check_ollama_health, whose
\* own catch answers a failed request with the status unhealthy and no
\* isError.
C37_ExceptionsAnsweredExceptHealth ==
    /\ HandlerAnswersFailures
    /\ (hPc = "responded" /\ hRaised) =>
          IF hTool = "check_ollama_health"
          THEN hResponse = Unhealthy
          ELSE hResponse.isError

\* C37's case: the first request of a batch of two texts failed, and the
\* handler answered with isError after that one request.
C37_Witness ==
    /\ hPc = "responded"
    /\ hTool = "batch_embeddings"
    /\ hRaised
    /\ hTexts = 2
    /\ hSent = 1
    /\ hResponse.isError

(***************************************************************************)
(* Specifications                                                          *)
(***************************************************************************)

Init ==
    /\ InitBreaker
    /\ InitRetry
    /\ InitBatch
    /\ InitCache
    /\ InitStore
    /\ InitPool
    /\ InitRank
    /\ InitSource
    /\ InitChunk
    /\ InitHandler

SpecBreaker == Init /\ [][NextBreaker]_vars

\* The promise of fn settles and the timer fires: the event loop runs every
\* continuation that is ready.
SpecRetry == Init /\ [][NextRetry]_vars /\ WF_vars(NextRetry)

SpecBatch == Init /\ [][NextBatch]_vars

SpecCache == Init /\ [][NextCache]_vars

SpecStore == Init /\ [][NextStore]_vars

SpecTools == Init /\ [][NextTools]_vars

SpecPool == Init /\ [][NextPool]_vars

SpecRank == Init /\ [][NextRank]_vars

SpecUse == Init /\ [][NextUse]_vars

SpecSource == Init /\ [][NextSource]_vars

SpecChunk == Init /\ [][NextChunk]_vars

\* A request that settles or times out is taken up, and the next tool call
\* comes: the event loop runs every continuation that is ready.
SpecHandler == Init /\ [][NextHandler]_vars /\ WF_vars(NextHandler)

Next ==
    \/ NextBreaker
    \/ NextRetry
    \/ NextBatch
    \/ NextCache
    \/ NextStore
    \/ NextTools
    \/ NextPool
    \/ NextRank
    \/ NextUse
    \/ NextSource
    \/ NextChunk
    \/ NextHandler

Spec == Init /\ [][Next]_vars

====
